---- MODULE Spec2Model ----
(***************************************************************************)
(* The five-stage SEO pipeline of search-sentinel-v2: the handleAnalyze    *)
(* handlers of the Analyzer / Index pages and of the CompanyProfile page,  *)
(* driven through the seoApi client.  One action models the code that runs *)
(* from one await to the next; the catch and finally blocks are steps of   *)
(* their own.                                                              *)
(***************************************************************************)
EXTENDS Integers, Sequences, FiniteSets, TLC

VARIABLES
    page,               \* which page component is mounted
    url,                \* the url / websiteUrl input state
    isAnalyzing,        \* useState(false)
    currentQueryIndex,  \* useState(-1)
    pipelineState,      \* useState<PipelineState>
    results,            \* useState<AnalysisResults | null>: <<>> is null
    pc,                 \* position of the running handleAnalyze
    runUrl,             \* the url captured by the handler's closure
    scrapeData,         \* local scrapeResult.data: <<>> before the scrape
    analysisData,       \* local analysisResult.data, destructured: <<>> before
    queriesToSearch,    \* local queries.slice(0, 5)
    allSearchResults,   \* local SearchResult[]
    allQueryContents,   \* local QueryContentResult[]
    i,                  \* loop variable of the two for loops
    thrown,             \* the exception on its way to the catch block
    inflight,           \* ids of the calls issued and not yet settled
    calls,              \* the calls issued by the latest run, in order
    settled,            \* the calls of the latest run that settled, in order
    toast,              \* the last toast emitted since the latest run started
    \* the edge functions (Deno.serve handlers) and what they talk to
    env,                \* Deno.env: which secrets are configured
    req,                \* the request being served: <<>> when there is none
    spc,                \* position of the edge function's handler
    userId,             \* local userId: <<>> is null
    gate,               \* what checkApiRateLimit returned: <<>> when not asked
    local,              \* the other locals of the running handler
    fetches,            \* the outgoing fetch calls of this request, in order
    usage,              \* usage events the billing backend accepted for it
    response,           \* the Response returned: <<>> while there is none
    demoChecks          \* checkApiRateLimit calls for the demo user so far

pipelineVars ==
    <<page, url, isAnalyzing, currentQueryIndex, pipelineState, results, pc,
      runUrl, scrapeData, analysisData, queriesToSearch, allSearchResults,
      allQueryContents, i, thrown, inflight, calls, settled, toast>>

serverVars ==
    <<env, req, spc, userId, gate, local, fetches, usage, response, demoChecks>>

vars == <<pipelineVars, serverVars>>

(***************************************************************************)
(* Bounds of the model and constants of the program.                       *)
(***************************************************************************)
MaxQueries == 6

\* a variant without the cutoff
TopQueriesAll == MaxQueries + 1
TopQueries == 5
ExcerptLen == 2000

Min(a, b) == IF a < b THEN a ELSE b

(***************************************************************************)
(* Strings the code inspects are sequences of characters.                  *)
(***************************************************************************)
\* the url field: empty, blank, filled in
Urls == { <<>>, <<" ">>, <<"a">> }
\* scraped content: empty, blank, text, text within white space
Contents == { <<>>, <<" ">>, <<"a">>, <<" ", "a", " ">> }

RECURSIVE TrimStart(_)
TrimStart(s) == IF s # <<>> /\ Head(s) = " " THEN TrimStart(Tail(s)) ELSE s

RECURSIVE TrimEnd(_)
TrimEnd(s) ==
    IF s # <<>> /\ s[Len(s)] = " " THEN TrimEnd(SubSeq(s, 1, Len(s) - 1)) ELSE s

Trim(s) == TrimEnd(TrimStart(s))

\* Array.prototype.slice / String.prototype.slice for 0 <= a <= b
Slice(s, a, b) == SubSeq(s, a + 1, Min(b, Len(s)))

(***************************************************************************)
(* Stages and statuses.                                                    *)
(***************************************************************************)
Stages == <<"scraping", "embedding", "queryGeneration", "competitorAnalysis",
            "contentGeneration">>
StageNames == { Stages[k] : k \in 1..Len(Stages) }
StepStatus == {"pending", "processing", "completed", "error"}

AllPending == [s \in StageNames |-> "pending"]

\* setPipelineState((s) => ({ ...s, a: x }))
Set1(ps, a, x) == [ps EXCEPT ![a] = x]
\* a variant that starts b without completing a
AdvanceKeepsProcessing(ps, a, b) == [ps EXCEPT ![b] = "processing"]

\* setPipelineState((s) => ({ ...s, a: "completed", b: "processing" }))
Advance(ps, a, b) == [ps EXCEPT ![a] = "completed", ![b] = "processing"]

(***************************************************************************)
(* Results of the seoApi client: { success, data?, error? }.  An optional  *)
(* field is <<>> when absent and <<v>> when it holds v.                    *)
(***************************************************************************)
Opt(S) == {<<>>} \cup { <<v>> : v \in S }
ErrorTexts == {"", "boom"}
ClientResults(D) == [success : BOOLEAN, data : Opt(D), error : Opt(ErrorTexts)]

\* JavaScript truthiness of an optional string: undefined and "" are falsy
TruthyText(o) == o # <<>> /\ o[1] # ""
\* a variant that always shows the fallback
OrElseFallback(o, fallback) == fallback

\* x || fallback on an optional string
OrElse(o, fallback) == IF TruthyText(o) THEN o[1] ELSE fallback

\* !r.success || !r.data
Failed(r) == ~r.success \/ r.data = <<>>
\* r.success && r.data
Succeeded(r) == r.success /\ r.data # <<>>

QNames == <<"q1", "q2", "q3", "q4", "q5", "q6", "q7", "q8", "q9">>
DupQueries == <<"q1", "q1", "q2", "q2", "q3", "q3">>
QueryLists == { SubSeq(QNames, 1, n) : n \in 0..MaxQueries } \cup {DupQueries}

ScrapeDatas == [content : Contents]
\* data: analysis is whatever JSON the model returned; queries may be missing
AnalysisDatas == [companyDescription : {"desc"}, targetAudience : {"aud"},
                  queries : Opt(QueryLists)]
\* seo-search answers data: { query, analysis, competitors } for the query asked
SearchData(q) == [query |-> q, analysis |-> "analysis"]
\* seo-generate-query answers data: { query, guideline, content }
QueryContentData(q) == [query |-> q, content |-> "html"]
GenerateDatas == [html : {"html"}]

ScrapeResults == ClientResults(ScrapeDatas)
AnalysisResults == ClientResults(AnalysisDatas)
SearchResults(q) == ClientResults({SearchData(q)})
QueryContentResults(q) == ClientResults({QueryContentData(q)})
GenerateResults == ClientResults(GenerateDatas)

(***************************************************************************)
(* Exceptions and toasts.                                                  *)
(***************************************************************************)
\* new Error(message)
NewError(message) == [isError |-> TRUE, message |-> message]
\* queries.slice(0, 5) with queries undefined
SliceOfUndefined == NewError("Cannot read properties of undefined (reading 'slice')")

Toast(title, description, variant) ==
    <<[title |-> title, description |-> description, variant |-> variant]>>

CompleteToast ==
    Toast("Analysis Complete!", "Your SEO content has been generated successfully.",
          "default")

\* error instanceof Error ? error.message : <generic>
CatchDescription(e) ==
    IF e.isError THEN e.message
    ELSE IF page = "CompanyProfile" THEN "An error occurred."
    ELSE "An error occurred during analysis."

\* a variant that marks every stage that has not completed
MarkErrorDownstream(ps) ==
    [s \in StageNames |-> IF ps[s] # "completed" THEN "error" ELSE ps[s]]

\* a variant that leaves the failed stage as it is
MarkErrorNone(ps) == ps

\* a variant that also unwinds the stages already completed
MarkErrorUnwind(ps) ==
    [s \in StageNames |-> IF ps[s] = "processing" THEN "error" ELSE "pending"]

\* the updater of the catch block: every processing stage becomes error
MarkError(ps) == [s \in StageNames |-> IF ps[s] = "processing" THEN "error" ELSE ps[s]]

(***************************************************************************)
(* Calls.                                                                  *)
(***************************************************************************)
Call(op, args) == [op |-> op, args |-> args]

\* a variant that fans the remaining searches out at once
IssueSearchAll(k, n) == k .. (n - 1)

\* the loop indices whose searchQuery call iteration k of the for loop issues
IssueSearch(k, n) == {k}
\* the loop indices whose generateQueryContent call iteration k issues
IssueGenerate(k, n) == {k}

RECURSIVE AppendAll(_, _, _, _)
\* cs extended by f[j] for j = lo .. hi
AppendAll(cs, f, lo, hi) ==
    IF lo > hi THEN cs ELSE AppendAll(Append(cs, f[lo]), f, lo + 1, hi)

SetMin(S) == CHOOSE x \in S : \A y \in S : x <= y
SetMax(S) == CHOOSE x \in S : \A y \in S : x >= y

\* the call log cs extended by the calls f[j], j \in DOMAIN f, in index order
Issued(cs, f) ==
    IF DOMAIN f = {} THEN cs
    ELSE AppendAll(cs, f, SetMin(DOMAIN f), SetMax(DOMAIN f))

\* the ids of the n calls appended to cs
NewIds(cs, n) == (Len(cs) + 1) .. (Len(cs) + n)

\* what the handler reads of a settled call's result: success && data, and
\* the error text where it reads it (the throw statements), <<>> elsewhere
Settlement(id, ok, errorRead) == [id |-> id, ok |-> ok, errorRead |-> errorRead]

\* `Website: ${url} - Analyze based on URL structure and domain.`
FallbackContent(u) ==
    <<"Website: ">> \o u \o <<" - Analyze based on URL structure and domain.">>

\* scrapeResult.data.content?.trim() || ""
ScrapedContent(data) == Trim(data.content)

\* the content argument of analyzeContent
ContentToAnalyze(data, u) ==
    IF page = "CompanyProfile" THEN data.content
    ELSE IF ScrapedContent(data) # <<>> THEN ScrapedContent(data)
    ELSE FallbackContent(u)

\* the if (!url.trim()) / if (!websiteUrl) guard of handleAnalyze
UrlMissing(u) == IF page = "CompanyProfile" THEN u = <<>> ELSE Trim(u) = <<>>

\* Analyzer and Index run the same handleAnalyze; CompanyProfile has its own
Pages == {"Analyzer", "Index", "CompanyProfile"}

(***************************************************************************)
(* Initial state: the component as mounted.                                *)
(***************************************************************************)
Mounted ==
    /\ page \in Pages
    /\ url = <<>>
    /\ isAnalyzing = FALSE
    /\ currentQueryIndex = IF page = "CompanyProfile" THEN 0 ELSE -1
    /\ pipelineState = AllPending
    /\ results = <<>>
    /\ pc = "idle"
    /\ runUrl = <<>>
    /\ scrapeData = <<>>
    /\ analysisData = <<>>
    /\ queriesToSearch = <<>>
    /\ allSearchResults = <<>>
    /\ allQueryContents = <<>>
    /\ i = 0
    /\ thrown = <<>>
    /\ inflight = {}
    /\ calls = <<>>
    /\ settled = <<>>
    /\ toast = <<>>

\* the pages reach the edge functions through seoApi only: in the pipeline's
\* specification no handler of an edge function is on stage
NoRequest ==
    /\ env = <<>>
    /\ req = <<>>
    /\ spc = "idle"
    /\ userId = <<>>
    /\ gate = <<>>
    /\ local = <<>>
    /\ fetches = <<>>
    /\ usage = <<>>
    /\ response = <<>>
    /\ demoChecks = 0

Init == Mounted /\ NoRequest

(***************************************************************************)
(* The tail of handleAnalyze from a given point on.  Each of these sets    *)
(* pipelineState, currentQueryIndex, i, pc, inflight, calls, toast and     *)
(* thrown; ps, infl are the values the caller has reached.                 *)
(***************************************************************************)

\* Analyzer / Index: for (let i = k; i < allSearchResults.length; i++) {...}
\* and what follows the loop
ContentLoop(k, asr, ad, ps, infl) ==
    IF k < Len(asr)
    THEN LET idxs == IssueGenerate(k, Len(asr))
             f == [j \in idxs |->
                     Call("generateQueryContent",
                          <<asr[j + 1].query, ad.companyDescription,
                            ad.targetAudience, runUrl,
                            Slice(scrapeData[1].content, 0, ExcerptLen),
                            asr[j + 1]>>)]
         IN /\ currentQueryIndex' = k
            /\ i' = k
            /\ calls' = Issued(calls, f)
            /\ inflight' = infl \cup NewIds(calls, Cardinality(idxs))
            /\ pc' = "generate"
            /\ pipelineState' = ps
            /\ UNCHANGED <<toast, thrown>>
    ELSE /\ pipelineState' = Set1(ps, "contentGeneration", "completed")
         /\ toast' = CompleteToast
         /\ pc' = "finally"
         /\ i' = k
         /\ inflight' = infl
         /\ UNCHANGED <<currentQueryIndex, calls, thrown>>

\* what follows the competitor loop
AfterCompetitorLoop(asr, ad, ps, infl) ==
    IF page = "CompanyProfile"
    THEN /\ pipelineState' = Advance(ps, "competitorAnalysis", "contentGeneration")
         /\ calls' = Append(calls,
                Call("generateContent",
                     <<ad.companyDescription, ad.targetAudience, ad.queries[1],
                       asr, runUrl>>))
         /\ inflight' = infl \cup NewIds(calls, 1)
         /\ pc' = "generateContent"
         /\ UNCHANGED <<currentQueryIndex, i, toast, thrown, allQueryContents>>
    ELSE /\ allQueryContents' = <<>>
         /\ ContentLoop(0, asr, ad,
                        Advance(ps, "competitorAnalysis", "contentGeneration"), infl)

\* for (let i = k; i < queriesToSearch.length; i++) {...} and what follows
CompetitorLoop(k, qts, asr, ad, ps, infl) ==
    IF k < Len(qts)
    THEN LET idxs == IssueSearch(k, Len(qts))
             f == [j \in idxs |-> Call("searchQuery", <<qts[j + 1], runUrl>>)]
         IN /\ currentQueryIndex' = k
            /\ i' = k
            /\ calls' = Issued(calls, f)
            /\ inflight' = infl \cup NewIds(calls, Cardinality(idxs))
            /\ pc' = "search"
            /\ pipelineState' = ps
            /\ UNCHANGED <<toast, thrown, allQueryContents>>
    ELSE AfterCompetitorLoop(asr, ad, ps, infl)

\* const allSearchResults = []; const queriesToSearch = queries.slice(0, 5);
\* and the loops
EnterCompetitor(ad, ps, infl) ==
    /\ allSearchResults' = <<>>
    /\ IF ad.queries = <<>>
       THEN /\ thrown' = <<SliceOfUndefined>>
            /\ pc' = "catch"
            /\ pipelineState' = ps
            /\ inflight' = infl
            /\ UNCHANGED <<queriesToSearch, currentQueryIndex, i, calls, toast,
                           allQueryContents>>
       ELSE /\ queriesToSearch' = Slice(ad.queries[1], 0, TopQueries)
            /\ CompetitorLoop(0, Slice(ad.queries[1], 0, TopQueries), <<>>, ad,
                              ps, infl)

\* throw new Error(message) inside the try block
Throw(message, infl) ==
    /\ thrown' = <<NewError(message)>>
    /\ pc' = "catch"
    /\ inflight' = infl

(***************************************************************************)
(* The user edits the url field.  The Analyzer's input is disabled while a *)
(* run is in progress; the CompanyProfile's is not.                        *)
(***************************************************************************)
SetUrl(u) ==
    /\ page = "CompanyProfile" \/ ~isAnalyzing
    /\ url' = u
    /\ UNCHANGED <<page, isAnalyzing, currentQueryIndex, pipelineState, results, pc,
                   runUrl, scrapeData, analysisData, queriesToSearch,
                   allSearchResults, allQueryContents, i, thrown, inflight, calls,
                   settled, toast>>
    /\ UNCHANGED serverVars

\* a submit control that is never disabled
SubmitEnabled == FALSE

\* the control that calls handleAnalyze: the submit button of UrlInput on
\* Analyzer and Index, disabled={isLoading || !url.trim()} with isLoading =
\* isAnalyzing, and the Analyze button of CompanyProfile,
\* disabled={isAnalyzing}
SubmitDisabled ==
    \/ isAnalyzing
    \/ page # "CompanyProfile" /\ Trim(url) = <<>>

(***************************************************************************)
(* handleAnalyze with no url: a toast and nothing else. Through UrlInput   *)
(* the function is not called without a url, so the branch is taken on     *)
(* CompanyProfile only.                                                    *)
(***************************************************************************)
HandleAnalyzeNoUrl ==
    /\ ~SubmitDisabled
    /\ UrlMissing(url)
    /\ toast' = Toast(IF page = "CompanyProfile" THEN "Website URL required"
                      ELSE "URL Required",
                      "Please enter a website URL to analyze.", "destructive")
    /\ UNCHANGED <<page, url, isAnalyzing, currentQueryIndex, pipelineState, results,
                   pc, runUrl, scrapeData, analysisData, queriesToSearch,
                   allSearchResults, allQueryContents, i, thrown, inflight, calls,
                   settled>>
    /\ UNCHANGED serverVars

(***************************************************************************)
(* handleAnalyze up to the first await: the reset and the scrape call. The *)
(* function has no guard of its own: it is entered when the submit control *)
(* lets it.                                                                *)
(***************************************************************************)
HandleAnalyze ==
    /\ ~SubmitDisabled
    /\ ~UrlMissing(url)
    /\ isAnalyzing' = TRUE
    /\ results' = <<>>
    /\ currentQueryIndex' = IF page = "CompanyProfile" THEN currentQueryIndex ELSE -1
    /\ pipelineState' = Set1(AllPending, "scraping", "processing")
    /\ runUrl' = url
    /\ calls' = <<Call("scrapeWebsite", <<url>>)>>
    /\ inflight' = NewIds(<<>>, 1)
    /\ settled' = <<>>
    /\ toast' = <<>>
    /\ scrapeData' = <<>>
    /\ analysisData' = <<>>
    /\ queriesToSearch' = <<>>
    /\ allSearchResults' = <<>>
    /\ allQueryContents' = <<>>
    /\ i' = 0
    /\ thrown' = <<>>
    /\ pc' = "scrape"
    /\ UNCHANGED <<page, url>>
    /\ UNCHANGED serverVars

(***************************************************************************)
(* Step 1: the scrape call settles.                                        *)
(***************************************************************************)
ScrapeSettles(id, r) ==
    /\ pc = "scrape"
    /\ id \in inflight
    /\ calls[id].op = "scrapeWebsite"
    /\ settled' = Append(settled,
            Settlement(id, Succeeded(r), IF Failed(r) THEN r.error ELSE <<>>))
    /\ IF Failed(r)
       THEN /\ Throw(OrElse(r.error, "Failed to scrape website"), inflight \ {id})
            /\ UNCHANGED <<pipelineState, scrapeData>>
       ELSE /\ scrapeData' = r.data
            /\ pipelineState' = Advance(pipelineState, "scraping", "embedding")
            /\ pc' = "embed"
            /\ inflight' = inflight \ {id}
            /\ thrown' = thrown
    /\ UNCHANGED <<page, url, isAnalyzing, currentQueryIndex, results, runUrl,
                   analysisData, queriesToSearch, allSearchResults,
                   allQueryContents, i, calls, toast>>
    /\ UNCHANGED serverVars

(***************************************************************************)
(* Step 2: the 500 ms timer fires; the analyze call is issued.             *)
(***************************************************************************)
EmbeddingDone ==
    /\ pc = "embed"
    /\ pipelineState' = Advance(pipelineState, "embedding", "queryGeneration")
    /\ calls' = Append(calls,
            Call("analyzeContent", <<ContentToAnalyze(scrapeData[1], runUrl), runUrl>>))
    /\ inflight' = inflight \cup NewIds(calls, 1)
    /\ pc' = "analyze"
    /\ UNCHANGED <<page, url, isAnalyzing, currentQueryIndex, results, runUrl,
                   scrapeData, analysisData, queriesToSearch, allSearchResults,
                   allQueryContents, i, thrown, settled, toast>>
    /\ UNCHANGED serverVars

\* the object handed to setResults after the analysis
FirstResults(ad) ==
    IF page = "CompanyProfile"
    THEN <<[companyDescription |-> ad.companyDescription,
            targetAudience |-> ad.targetAudience,
            queries |-> ad.queries,
            competitors |-> <<>>,
            generatedHtml |-> ""]>>
    ELSE <<[companyDescription |-> ad.companyDescription,
            targetAudience |-> ad.targetAudience,
            queries |-> ad.queries,
            competitors |-> <<>>,
            queryContents |-> <<>>,
            scrapedContent |-> ContentToAnalyze(scrapeData[1], runUrl)]>>

(***************************************************************************)
(* Step 3: the analyze call settles.                                       *)
(***************************************************************************)
AnalyzeSettles(id, r) ==
    /\ pc = "analyze"
    /\ id \in inflight
    /\ calls[id].op = "analyzeContent"
    /\ settled' = Append(settled,
            Settlement(id, Succeeded(r), IF Failed(r) THEN r.error ELSE <<>>))
    /\ IF Failed(r)
       THEN /\ Throw(OrElse(r.error, "Failed to analyze content"), inflight \ {id})
            /\ UNCHANGED <<pipelineState, analysisData, results, queriesToSearch,
                           allSearchResults, allQueryContents, currentQueryIndex,
                           i, calls, toast>>
       ELSE /\ analysisData' = r.data
            /\ results' = FirstResults(r.data[1])
            /\ IF page = "CompanyProfile"
               THEN /\ calls' = Append(calls,
                          Call("company_profiles.update",
                               <<r.data[1].companyDescription,
                                 r.data[1].targetAudience>>))
                    /\ inflight' = (inflight \ {id}) \cup NewIds(calls, 1)
                    /\ pc' = "profileUpdate"
                    /\ UNCHANGED <<pipelineState, queriesToSearch, allSearchResults,
                                   allQueryContents, currentQueryIndex, i, toast,
                                   thrown>>
               ELSE EnterCompetitor(r.data[1],
                        Advance(pipelineState, "queryGeneration", "competitorAnalysis"),
                        inflight \ {id})
    /\ UNCHANGED <<page, url, isAnalyzing, runUrl, scrapeData>>
    /\ UNCHANGED serverVars

(***************************************************************************)
(* CompanyProfile: the company_profiles update settles (its outcome is not *)
(* looked at).                                                             *)
(***************************************************************************)
ProfileUpdateSettles(id, ok) ==
    /\ pc = "profileUpdate"
    /\ id \in inflight
    /\ calls[id].op = "company_profiles.update"
    /\ settled' = Append(settled, Settlement(id, ok, <<>>))
    /\ EnterCompetitor(analysisData[1],
            Advance(pipelineState, "queryGeneration", "competitorAnalysis"),
            inflight \ {id})
    /\ UNCHANGED <<page, url, isAnalyzing, results, runUrl, scrapeData, analysisData>>
    /\ UNCHANGED serverVars

\* setResults((r) => r && { ...r, competitors: [...allSearchResults] })
WithCompetitors(res, asr) ==
    IF res = <<>> THEN res ELSE <<[res[1] EXCEPT !.competitors = asr]>>

\* setResults((r) => r && { ...r, queryContents: [...allQueryContents] })
WithQueryContents(res, aqc) ==
    IF res = <<>> THEN res ELSE <<[res[1] EXCEPT !.queryContents = aqc]>>

\* setResults((r) => r && { ...r, generatedHtml: html })
WithGeneratedHtml(res, html) ==
    IF res = <<>> THEN res ELSE <<[res[1] EXCEPT !.generatedHtml = html]>>

\* a variant that puts the newest result first
PushSearchResultFirst(asr, r) == IF Succeeded(r) THEN <<r.data[1]>> \o asr ELSE asr

\* a variant that appends an entry for a failed search too
PushSearchResultAlways(asr, r) ==
    Append(asr, IF r.data # <<>> THEN r.data[1]
                ELSE [query |-> "placeholder", analysis |-> ""])

\* allSearchResults after the result r of a search
PushSearchResult(asr, r) == IF Succeeded(r) THEN Append(asr, r.data[1]) ELSE asr

\* a variant that appends an entry for a failed generation too
PushQueryContentAlways(aqc, r) ==
    Append(aqc, IF r.data # <<>> THEN r.data[1]
                ELSE [query |-> "placeholder", content |-> ""])

\* allQueryContents after the result r of a generateQueryContent
PushQueryContent(aqc, r) == IF Succeeded(r) THEN Append(aqc, r.data[1]) ELSE aqc

(***************************************************************************)
(* Step 4: one search call settles; the loop goes on.                      *)
(***************************************************************************)
SearchSettles(id, r) ==
    /\ pc = "search"
    /\ id \in inflight
    /\ calls[id].op = "searchQuery"
    /\ settled' = Append(settled, Settlement(id, Succeeded(r), <<>>))
    /\ allSearchResults' = PushSearchResult(allSearchResults, r)
    /\ results' = IF Succeeded(r)
                  THEN WithCompetitors(results, PushSearchResult(allSearchResults, r))
                  ELSE results
    /\ CompetitorLoop(i + 1, queriesToSearch, PushSearchResult(allSearchResults, r),
                      analysisData[1], pipelineState, inflight \ {id})
    /\ UNCHANGED <<page, url, isAnalyzing, runUrl, scrapeData, analysisData,
                   queriesToSearch>>
    /\ UNCHANGED serverVars

(***************************************************************************)
(* Step 5, Analyzer / Index: one generateQueryContent call settles.        *)
(***************************************************************************)
GenerateSettles(id, r) ==
    /\ pc = "generate"
    /\ id \in inflight
    /\ calls[id].op = "generateQueryContent"
    /\ settled' = Append(settled, Settlement(id, Succeeded(r), <<>>))
    /\ allQueryContents' = PushQueryContent(allQueryContents, r)
    /\ results' = IF Succeeded(r)
                  THEN WithQueryContents(results, PushQueryContent(allQueryContents, r))
                  ELSE results
    /\ ContentLoop(i + 1, allSearchResults, analysisData[1], pipelineState,
                   inflight \ {id})
    /\ UNCHANGED <<page, url, isAnalyzing, runUrl, scrapeData, analysisData,
                   queriesToSearch, allSearchResults>>
    /\ UNCHANGED serverVars

(***************************************************************************)
(* Step 5, CompanyProfile: the single generateContent call settles.        *)
(***************************************************************************)
GenerateContentSettles(id, r) ==
    /\ pc = "generateContent"
    /\ id \in inflight
    /\ calls[id].op = "generateContent"
    /\ settled' = Append(settled,
            Settlement(id, Succeeded(r), IF Failed(r) THEN r.error ELSE <<>>))
    /\ IF Failed(r)
       THEN /\ Throw(OrElse(r.error, "Failed to generate content"), inflight \ {id})
            /\ UNCHANGED <<results, pipelineState, calls>>
       ELSE /\ results' = WithGeneratedHtml(results, r.data[1].html)
            /\ pipelineState' = Set1(pipelineState, "contentGeneration", "completed")
            /\ calls' = Append(calls,
                    Call("analysis_results.insert",
                         <<analysisData[1].queries[1], allSearchResults,
                           r.data[1].html>>))
            /\ inflight' = (inflight \ {id}) \cup NewIds(calls, 1)
            /\ pc' = "insert"
            /\ thrown' = thrown
    /\ UNCHANGED <<page, url, isAnalyzing, currentQueryIndex, runUrl, scrapeData,
                   analysisData, queriesToSearch, allSearchResults,
                   allQueryContents, i, toast>>
    /\ UNCHANGED serverVars

(***************************************************************************)
(* CompanyProfile: the analysis_results insert settles.                    *)
(***************************************************************************)
InsertSettles(id, ok) ==
    /\ pc = "insert"
    /\ id \in inflight
    /\ calls[id].op = "analysis_results.insert"
    /\ settled' = Append(settled, Settlement(id, ok, <<>>))
    /\ inflight' = inflight \ {id}
    /\ toast' = CompleteToast
    /\ pc' = "finally"
    /\ UNCHANGED <<page, url, isAnalyzing, currentQueryIndex, pipelineState, results,
                   runUrl, scrapeData, analysisData, queriesToSearch,
                   allSearchResults, allQueryContents, i, thrown, calls>>
    /\ UNCHANGED serverVars

(***************************************************************************)
(* catch (error) { toast(...); setPipelineState(...) }                      *)
(***************************************************************************)
Catch ==
    /\ pc = "catch"
    /\ toast' = Toast("Analysis Failed", CatchDescription(thrown[1]), "destructive")
    /\ pipelineState' = MarkError(pipelineState)
    /\ pc' = "finally"
    /\ UNCHANGED <<page, url, isAnalyzing, currentQueryIndex, results, runUrl,
                   scrapeData, analysisData, queriesToSearch, allSearchResults,
                   allQueryContents, i, thrown, inflight, calls, settled>>
    /\ UNCHANGED serverVars

\* a finally block that leaves currentQueryIndex as it is
FinallyKeepsIndex ==
    /\ pc = "finally"
    /\ isAnalyzing' = FALSE
    /\ pc' = "idle"
    /\ UNCHANGED <<page, url, pipelineState, results, runUrl, scrapeData,
                   analysisData, queriesToSearch, allSearchResults,
                   allQueryContents, i, thrown, inflight, calls, settled, toast,
                   currentQueryIndex>>
    /\ UNCHANGED serverVars

(***************************************************************************)
(* finally { setIsAnalyzing(false); setCurrentQueryIndex(-1) }              *)
(* (the CompanyProfile page has no setCurrentQueryIndex there).            *)
(***************************************************************************)
Finally ==
    /\ pc = "finally"
    /\ isAnalyzing' = FALSE
    /\ currentQueryIndex' = IF page = "CompanyProfile" THEN currentQueryIndex ELSE -1
    /\ pc' = "idle"
    /\ UNCHANGED <<page, url, pipelineState, results, runUrl, scrapeData,
                   analysisData, queriesToSearch, allSearchResults,
                   allQueryContents, i, thrown, inflight, calls, settled, toast>>
    /\ UNCHANGED serverVars

Next ==
    \/ \E u \in Urls : SetUrl(u)
    \/ HandleAnalyzeNoUrl
    \/ HandleAnalyze
    \/ \E id \in inflight : \E r \in ScrapeResults : ScrapeSettles(id, r)
    \/ EmbeddingDone
    \/ \E id \in inflight : \E r \in AnalysisResults : AnalyzeSettles(id, r)
    \/ \E id \in inflight : \E ok \in BOOLEAN : ProfileUpdateSettles(id, ok)
    \/ \E id \in inflight : \E r \in SearchResults(calls[id].args[1]) :
            SearchSettles(id, r)
    \/ \E id \in inflight : \E r \in QueryContentResults(calls[id].args[1]) :
            GenerateSettles(id, r)
    \/ \E id \in inflight : \E r \in GenerateResults : GenerateContentSettles(id, r)
    \/ \E id \in inflight : \E ok \in BOOLEAN : InsertSettles(id, ok)
    \/ Catch
    \/ Finally

Spec == Init /\ [][Next]_vars

\* the steps a started run takes by itself: the settling of the call or timer
\* it awaits, and its catch and finally blocks
RunStep ==
    \/ \E id \in inflight : \E r \in ScrapeResults : ScrapeSettles(id, r)
    \/ EmbeddingDone
    \/ \E id \in inflight : \E r \in AnalysisResults : AnalyzeSettles(id, r)
    \/ \E id \in inflight : \E ok \in BOOLEAN : ProfileUpdateSettles(id, ok)
    \/ \E id \in inflight : \E r \in SearchResults(calls[id].args[1]) :
            SearchSettles(id, r)
    \/ \E id \in inflight : \E r \in QueryContentResults(calls[id].args[1]) :
            GenerateSettles(id, r)
    \/ \E id \in inflight : \E r \in GenerateResults : GenerateContentSettles(id, r)
    \/ \E id \in inflight : \E ok \in BOOLEAN : InsertSettles(id, ok)
    \/ Catch
    \/ Finally

\* every external call and timer settles in the end, and the event loop runs
\* the continuation that waits for it
FairSpec == Spec /\ WF_vars(RunStep)

(***************************************************************************)
(* Observations used by the properties.                                    *)
(***************************************************************************)
Ids == [k \in 1..Len(calls) |-> k]
OkIds == { settled[k].id : k \in { j \in 1..Len(settled) : settled[j].ok } }
SettledIds == { settled[k].id : k \in 1..Len(settled) }

\* the ids of the calls of operation op, in the order of issue
IdsOf(op) == SelectSeq(Ids, LAMBDA id : calls[id].op = op)
\* the first argument (the query) of each call of op, in the order of issue
QueriesOf(op) == [k \in 1..Len(IdsOf(op)) |-> calls[IdsOf(op)[k]].args[1]]
\* the queries of the calls of op that settled successfully, in the order of issue
OkQueriesOf(op) ==
    LET ok == SelectSeq(IdsOf(op), LAMBDA id : id \in OkIds)
    IN [k \in 1..Len(ok) |-> calls[ok[k]].args[1]]
\* whether each call of op succeeded, in the order of issue (settled calls only)
OutcomesOf(op) ==
    LET done == SelectSeq(IdsOf(op), LAMBDA id : id \in SettledIds)
    IN [k \in 1..Len(done) |-> done[k] \in OkIds]

QueryFields(entries) == [k \in 1..Len(entries) |-> entries[k].query]

IsPrefix(a, b) == Len(a) <= Len(b) /\ a = SubSeq(b, 1, Len(a))

RECURSIVE IsSubseq(_, _)
\* a is b with some elements left out
IsSubseq(a, b) ==
    IF a = <<>> THEN TRUE
    ELSE IF b = <<>> THEN FALSE
    ELSE IF Head(a) = Head(b) THEN IsSubseq(Tail(a), Tail(b))
    ELSE IsSubseq(a, Tail(b))

LoopPage == page # "CompanyProfile"
Published == results # <<>>
QueriesKnown == analysisData # <<>> /\ analysisData[1].queries # <<>>
Queries == analysisData[1].queries[1]
RunOver == pc \in {"finally", "idle"}
Stage(k) == pipelineState[Stages[k]]
AllCompleted == \A s \in StageNames : pipelineState[s] = "completed"
Processing == { s \in StageNames : pipelineState[s] = "processing" }

(***************************************************************************)
(* C1.  competitorResults is the order-preserving subsequence of the first *)
(* five queries whose search succeeded, and the content loop calls         *)
(* generateQueryContent once per such entry, in that order; with q3        *)
(* failing among q1..q5 that is [q1, q2, q4, q5], never q3.                *)
(***************************************************************************)
C1_SkipFailedSearches ==
    (LoopPage /\ Published /\ QueriesKnown) =>
        /\ IsPrefix(QueriesOf("searchQuery"), Slice(Queries, 0, 5))
        /\ QueryFields(results[1].competitors) = OkQueriesOf("searchQuery")
        /\ QueryFields(allSearchResults) = OkQueriesOf("searchQuery")
        /\ IsPrefix(QueriesOf("generateQueryContent"), OkQueriesOf("searchQuery"))
        /\ pipelineState["competitorAnalysis"] = "completed" =>
                QueriesOf("searchQuery") = Slice(Queries, 0, 5)
        /\ pipelineState["contentGeneration"] = "completed" =>
                QueriesOf("generateQueryContent") = OkQueriesOf("searchQuery")
        /\ (/\ pipelineState["contentGeneration"] = "completed"
            /\ Slice(Queries, 0, 5) = <<"q1", "q2", "q3", "q4", "q5">>
            /\ OutcomesOf("searchQuery") = <<TRUE, TRUE, FALSE, TRUE, TRUE>>) =>
                /\ QueryFields(results[1].competitors) = <<"q1", "q2", "q4", "q5">>
                /\ QueriesOf("generateQueryContent") = <<"q1", "q2", "q4", "q5">>

C1_Witness ==
    /\ LoopPage /\ Published /\ QueriesKnown /\ RunOver
    /\ pipelineState["contentGeneration"] = "completed"
    /\ Slice(Queries, 0, 5) = <<"q1", "q2", "q3", "q4", "q5">>
    /\ OutcomesOf("searchQuery") = <<TRUE, TRUE, FALSE, TRUE, TRUE>>
    /\ QueryFields(results[1].competitors) = <<"q1", "q2", "q4", "q5">>
    /\ Len(IdsOf("generateQueryContent")) = 4

(***************************************************************************)
(* C2.  At most one of the five stages has status processing.              *)
(***************************************************************************)
C2_AtMostOneProcessing == Cardinality(Processing) <= 1

C2_Witness ==
    /\ pc = "search"
    /\ Processing = {"competitorAnalysis"}
    /\ pipelineState["queryGeneration"] = "completed"

(***************************************************************************)
(* C3.  Read in declared order the statuses are: completed stages, then at *)
(* most one stage that is processing or error, then pending stages only;   *)
(* and while a stage is error no status changes until the next run starts. *)
(***************************************************************************)
C3_Pattern ==
    \E k \in 0..Len(Stages) :
        /\ \A j \in 1..k : Stage(j) = "completed"
        /\ \A j \in (k + 2)..Len(Stages) : Stage(j) = "pending"

C3_Frozen ==
    (\E s \in StageNames : pipelineState[s] = "error") =>
        \/ pipelineState' = pipelineState
        \/ pipelineState' = Set1(AllPending, "scraping", "processing")

C3_OrderedStages == []C3_Pattern /\ [][C3_Frozen]_vars

C3_Witness ==
    /\ RunOver
    /\ Stage(1) = "completed" /\ Stage(2) = "completed" /\ Stage(3) = "error"
    /\ Stage(4) = "pending" /\ Stage(5) = "pending"

(***************************************************************************)
(* C4.  A failed scrapeWebsite makes the scraping stage error and no       *)
(* analyzeContent, searchQuery or generateQueryContent call is issued in   *)
(* that run; a failed analyzeContent makes the queryGeneration stage error *)
(* and no searchQuery or generateQueryContent call is issued.              *)
(***************************************************************************)
FailedCall(op) ==
    \E k \in 1..Len(settled) : calls[settled[k].id].op = op /\ ~settled[k].ok

C4_PrerequisiteFailureHalts ==
    /\ FailedCall("scrapeWebsite") =>
        /\ Len(calls) = 1
        /\ RunOver => pipelineState["scraping"] = "error"
        /\ ~RunOver => pipelineState["scraping"] = "processing" /\ pc = "catch"
    /\ FailedCall("analyzeContent") =>
        /\ Len(calls) = 2
        /\ IdsOf("searchQuery") = <<>>
        /\ IdsOf("generateQueryContent") = <<>>
        /\ RunOver => pipelineState["queryGeneration"] = "error"
        /\ ~RunOver => pipelineState["queryGeneration"] = "processing" /\ pc = "catch"

C4_Witness ==
    /\ FailedCall("analyzeContent")
    /\ pc = "idle"
    /\ pipelineState["queryGeneration"] = "error"
    /\ Len(calls) = 2

(***************************************************************************)
(* C5.  When the scrape or the analyze stage fails, the description of the *)
(* toast is the error text of the failing client result when it has one    *)
(* (a non-empty text), and the fixed fallback of that stage otherwise.     *)
(***************************************************************************)
Fallback(op) ==
    IF op = "scrapeWebsite" THEN "Failed to scrape website"
    ELSE "Failed to analyze content"

LastSettled == settled[Len(settled)]

StageFailure ==
    /\ settled # <<>>
    /\ ~LastSettled.ok
    /\ calls[LastSettled.id].op \in {"scrapeWebsite", "analyzeContent"}

FailureToastShown == toast # <<>> /\ toast[1].title = "Analysis Failed"

C5_ErrorTextSurfaced ==
    StageFailure =>
        /\ pc = "finally" => FailureToastShown
        /\ FailureToastShown =>
            /\ toast[1].variant = "destructive"
            /\ toast[1].description =
                 IF LastSettled.errorRead # <<>> /\ LastSettled.errorRead[1] # ""
                 THEN LastSettled.errorRead[1]
                 ELSE Fallback(calls[LastSettled.id].op)

C5_Witness ==
    /\ StageFailure
    /\ FailureToastShown
    /\ calls[LastSettled.id].op = "scrapeWebsite"
    /\ LastSettled.errorRead = <<"boom">>
    /\ toast[1].description = "boom"

(***************************************************************************)
(* C6.  At most one call is in flight at any moment, and it is the last    *)
(* one issued: a call is issued only after every earlier call of the run   *)
(* has settled.                                                            *)
(***************************************************************************)
C6_OneCallInFlight ==
    /\ Cardinality(inflight) <= 1
    /\ inflight \subseteq {Len(calls)}
    /\ \A id \in 1..Len(calls) : id \in inflight \/ id \in SettledIds
    /\ \A k \in 1..Len(settled) : settled[k].id = k

C6_Witness ==
    /\ pc = "search"
    /\ i = 2
    /\ inflight = {Len(calls)}
    /\ Len(settled) = Len(calls) - 1
    /\ Len(IdsOf("searchQuery")) = 3

(***************************************************************************)
(* C7.  The failure handler changes only the status of the stage that was  *)
(* processing: completed stages stay completed and the published results   *)
(* (companyDescription, targetAudience, queries, competitors,              *)
(* queryContents) are left as they are.                                    *)
(***************************************************************************)
C7_CatchStep ==
    (pc = "catch" /\ pc' # "catch") =>
        /\ results' = results
        /\ \A s \in StageNames :
              pipelineState[s] # "processing" => pipelineState'[s] = pipelineState[s]
        /\ \A s \in StageNames :
              pipelineState[s] = "processing" => pipelineState'[s] = "error"
        /\ <<allSearchResults', allQueryContents', analysisData', scrapeData'>> =
              <<allSearchResults, allQueryContents, analysisData, scrapeData>>

C7_FinallyStep ==
    (pc = "finally" /\ pc' # "finally") =>
        results' = results /\ pipelineState' = pipelineState

C7_ErrorKeepsUpstream == [][C7_CatchStep /\ C7_FinallyStep]_vars

C7_Witness ==
    /\ pc = "finally"
    /\ thrown # <<>>
    /\ Published
    /\ results[1].competitors # <<>>
    /\ Stage(3) = "completed" /\ Stage(4) = "completed" /\ Stage(5) = "error"

(***************************************************************************)
(* C8.  As claimed: the queries of competitorResults form a prefix of      *)
(* queries, and the queries of queryContent form a prefix of queries.      *)
(***************************************************************************)
C8_PrefixesOfQueries ==
    (LoopPage /\ Published /\ QueriesKnown) =>
        /\ IsPrefix(QueryFields(results[1].competitors), Queries)
        /\ IsPrefix(QueryFields(results[1].queryContents), Queries)

(***************************************************************************)
(* C8, amended.  The queries of competitorResults are the first five       *)
(* queries with the failed searches left out (an order-preserving          *)
(* subsequence, a prefix as long as no search has failed), and the queries *)
(* of queryContent are those of competitorResults with the failed          *)
(* generations left out; nothing is reordered.                             *)
(***************************************************************************)
C8_SubsequencesOfQueries ==
    (LoopPage /\ Published /\ QueriesKnown) =>
        /\ IsSubseq(QueryFields(results[1].competitors), Slice(Queries, 0, 5))
        /\ IsSubseq(QueryFields(results[1].queryContents),
                    QueryFields(results[1].competitors))
        /\ (\A k \in 1..Len(OutcomesOf("searchQuery")) : OutcomesOf("searchQuery")[k]) =>
                IsPrefix(QueryFields(results[1].competitors), Queries)
        /\ (/\ \A k \in 1..Len(OutcomesOf("searchQuery")) : OutcomesOf("searchQuery")[k]
            /\ \A k \in 1..Len(OutcomesOf("generateQueryContent")) :
                    OutcomesOf("generateQueryContent")[k]) =>
                IsPrefix(QueryFields(results[1].queryContents), Queries)

C8_Witness ==
    /\ LoopPage /\ Published /\ QueriesKnown /\ RunOver
    /\ Queries = <<"q1", "q2", "q3", "q4", "q5", "q6">>
    /\ QueryFields(results[1].competitors) = <<"q2", "q3", "q5">>
    /\ QueryFields(results[1].queryContents) = <<"q3", "q5">>

(***************************************************************************)
(* C9.  Top-5 cutoff: searchQuery is called only for the queries at        *)
(* positions 1..5, in that order, so competitorResults and queryContent    *)
(* never hold more than 5 entries, and none for a query of position 6 or   *)
(* later.                                                                  *)
(***************************************************************************)
C9_TopFiveCutoff ==
    /\ Len(IdsOf("searchQuery")) <= 5
    /\ Len(IdsOf("generateQueryContent")) <= 5
    /\ QueriesKnown =>
        \A k \in 1..Len(IdsOf("searchQuery")) :
            k <= Len(Queries) /\ QueriesOf("searchQuery")[k] = Queries[k]
    /\ (Published /\ QueriesKnown) =>
        /\ Len(results[1].competitors) <= 5
        /\ \A k \in 1..Len(results[1].competitors) :
              \E j \in 1..5 : j <= Len(Queries) /\ results[1].competitors[k].query = Queries[j]
        /\ LoopPage =>
            /\ Len(results[1].queryContents) <= 5
            /\ \A k \in 1..Len(results[1].queryContents) :
                  \E j \in 1..5 :
                      j <= Len(Queries) /\ results[1].queryContents[k].query = Queries[j]

C9_Witness ==
    /\ LoopPage /\ Published /\ QueriesKnown /\ RunOver
    /\ Queries = <<"q1", "q2", "q3", "q4", "q5", "q6">>
    /\ Len(results[1].competitors) = 5
    /\ Len(results[1].queryContents) = 5
    /\ AllCompleted

(***************************************************************************)
(* C10.  A failed searchQuery or generateQueryContent never sets a stage   *)
(* to error: the loop goes on with the next item, no entry is appended for *)
(* the failed item, and the run ends with all five stages completed.       *)
(***************************************************************************)
NumOk(op) == Cardinality({ k \in 1..Len(IdsOf(op)) : IdsOf(op)[k] \in OkIds })

LoopsEntered == QueriesKnown /\ pc \in {"search", "generate", "finally", "idle"}

C10_PerItemFailures ==
    /\ (LoopsEntered /\ Published) =>
          Len(results[1].competitors) = NumOk("searchQuery")
    /\ (LoopsEntered /\ pipelineState["competitorAnalysis"] = "completed") =>
          Len(IdsOf("searchQuery")) = Len(Slice(Queries, 0, 5))
    /\ (LoopsEntered /\ pc = "search") =>
          /\ pipelineState["competitorAnalysis"] = "processing"
          /\ thrown = <<>>
    /\ (LoopPage /\ LoopsEntered) =>
          /\ thrown = <<>>
          /\ \A s \in StageNames : pipelineState[s] # "error"
          /\ Published => Len(results[1].queryContents) = NumOk("generateQueryContent")
          /\ RunOver =>
                /\ AllCompleted
                /\ Len(IdsOf("generateQueryContent")) = NumOk("searchQuery")
                /\ pc = "finally" => toast = CompleteToast

C10_Witness ==
    /\ LoopPage /\ LoopsEntered /\ Published /\ pc = "finally"
    /\ OutcomesOf("searchQuery") = <<FALSE, TRUE, TRUE, FALSE, TRUE>>
    /\ OutcomesOf("generateQueryContent") = <<TRUE, FALSE, FALSE>>
    /\ Len(results[1].competitors) = 3
    /\ Len(results[1].queryContents) = 1
    /\ AllCompleted

(***************************************************************************)
(* The edge functions seo-scrape, seo-analyze, seo-search, seo-generate    *)
(* and seo-generate-query, and the Flowglad quota gate they share.  One    *)
(* action models the handler's code from one await to the next.            *)
(***************************************************************************)
DEMO_USER_ID == "demo-user-12345"
Identities == {"user-1", DEMO_USER_ID}

Endpoints ==
    {"seo-scrape", "seo-analyze", "seo-search", "seo-generate", "seo-generate-query"}

\* the usage meter a handler passes to checkApiRateLimit and recordUsageEvent
Meter(e) ==
    CASE e = "seo-scrape" -> "scrape-requests"
      [] e = "seo-analyze" -> "analyze-requests"
      [] e = "seo-search" -> "search-requests"
      [] e \in {"seo-generate", "seo-generate-query"} -> "generate-requests"

Meters == {Meter(e) : e \in Endpoints}

\* the handlers that verify the token with supabase.auth.getClaims; the
\* others decode the token's payload themselves
Verifying == {"seo-scrape", "seo-search", "seo-generate"}

(***************************************************************************)
(* _shared/flowglad.ts                                                     *)
(***************************************************************************)
UnconfiguredBalance == 999
StarterBalance == 10
DemoRemaining == 3
Unknown == -1

IsDemoUser(u) == u = DEMO_USER_ID

FlowgladError(code, message) == [code |-> code, message |-> message]

\* a meter of the billing payload; availableBalance may be missing
MeterDatas == [availableBalance : Opt({-1, 0, 2})]

\* some meter other than m
OtherMeter(m) == CHOOSE x \in Meters : x # m

\* data.usageMeters of a billing payload, as far as a check of meter m can
\* tell them apart: no meters, a meter of another class only, a meter m
UsageMeterMaps(m) ==
    {<<>>} \cup {[x \in {OtherMeter(m)} |-> [availableBalance |-> <<2>>]]}
           \cup {[x \in {m} |-> md] : md \in MeterDatas}

\* what the GET .../billing fetch can come to
BillingAnswers(m) ==
    {[kind |-> "throw"]}
        \cup {[kind |-> "http", status |-> st] : st \in {404, 500}}
        \cup {[kind |-> "ok", data |-> [usageMeters |-> um]] : um \in UsageMeterMaps(m)}

\* x ?? 0
OrZero(o) == IF o = <<>> THEN 0 ELSE o[1]

\* a billing object whose checkUsageBalance answers the same for every meter
FlatBilling(available) ==
    [checkUsageBalance |-> [slug \in Meters |-> <<[availableBalance |-> available]>>]]

\* the billing object built around a payload
BillingOf(data) ==
    [checkUsageBalance |->
        [slug \in Meters |->
            IF slug \in DOMAIN data.usageMeters
            THEN <<[availableBalance |->
                        OrZero(data.usageMeters[slug].availableBalance)]>>
            ELSE <<>>]]

\* getFlowgladBilling, given whether FLOWGLAD_SECRET_KEY is set and what the
\* fetch came to (no fetch is made without the key)
GetFlowgladBilling(apiKey, a) ==
    IF ~apiKey
    THEN [billing |-> <<FlatBilling(UnconfiguredBalance)>>, error |-> <<>>]
    ELSE IF a.kind = "throw"
    THEN [billing |-> <<>>,
          error |-> <<FlowgladError("NETWORK_ERROR",
                                    "Failed to connect to billing service")>>]
    ELSE IF a.kind = "http"
    THEN IF a.status = 404
         THEN [billing |-> <<FlatBilling(StarterBalance)>>, error |-> <<>>]
         ELSE [billing |-> <<>>,
               error |-> <<FlowgladError("API_ERROR",
                                         "Failed to check billing status")>>]
    ELSE [billing |-> <<BillingOf(a.data)>>, error |-> <<>>]

GateResult(allowed, remaining, error, isDemo) ==
    [allowed |-> allowed, remaining |-> remaining, error |-> error, isDemo |-> isDemo]

RateLimitExceeded ==
    FlowgladError("RATE_LIMIT_EXCEEDED",
                  "API rate limit exceeded. Please upgrade your plan.")

\* a variant that closes the gate when the billing state is not known
CheckApiRateLimitClosed(customerExternalId, usageMeterSlug, apiKey, a) ==
    IF IsDemoUser(customerExternalId)
    THEN GateResult(TRUE, DemoRemaining, <<>>, TRUE)
    ELSE
    LET r == GetFlowgladBilling(apiKey, a) IN
    IF r.billing = <<>> \/ r.billing[1].checkUsageBalance[usageMeterSlug] = <<>>
    THEN GateResult(FALSE, 0, <<RateLimitExceeded>>, FALSE)
    ELSE LET balance == r.billing[1].checkUsageBalance[usageMeterSlug] IN
         GateResult(balance[1].availableBalance > 0, balance[1].availableBalance,
                    IF balance[1].availableBalance > 0 THEN <<>>
                    ELSE <<RateLimitExceeded>>,
                    FALSE)

\* checkApiRateLimit
CheckApiRateLimit(customerExternalId, usageMeterSlug, apiKey, a) ==
    IF IsDemoUser(customerExternalId)
    THEN GateResult(TRUE, DemoRemaining, <<>>, TRUE)
    ELSE LET r == GetFlowgladBilling(apiKey, a) IN
         IF r.error # <<>> THEN GateResult(TRUE, Unknown, r.error, FALSE)
         ELSE IF r.billing = <<>> THEN GateResult(TRUE, Unknown, <<>>, FALSE)
         ELSE LET balance == r.billing[1].checkUsageBalance[usageMeterSlug] IN
              IF balance = <<>> THEN GateResult(TRUE, Unknown, <<>>, FALSE)
              ELSE LET allowed == balance[1].availableBalance > 0 IN
                   GateResult(allowed, balance[1].availableBalance,
                              IF allowed THEN <<>> ELSE <<RateLimitExceeded>>,
                              FALSE)

\* whether checkApiRateLimit gets as far as the fetch of getFlowgladBilling
AsksBilling(customerExternalId, apiKey) ==
    ~IsDemoUser(customerExternalId) /\ apiKey

\* what the POST /v1/usage-events fetch of recordUsageEvent can come to
UsageAnswers == {"throw", "http", "ok"}

\* the usage event recordUsageEvent posts
UsageEvent(customerExternalId, usageMeterSlug, amount) ==
    [customerExternalId |-> customerExternalId, usageMeterSlug |-> usageMeterSlug,
     amount |-> amount]

(***************************************************************************)
(* Requests.                                                               *)
(***************************************************************************)
\* the authorization header: none, one that does not start with Bearer
\* (raw), or Bearer <token>; sub is the sub of the token's payload, <<>>
\* when the token does not decode to one
Auths ==
    {[scheme |-> "none", sub |-> <<>>]}
        \cup [scheme : {"raw", "bearer"}, sub : Opt(Identities)]

\* the JSON body: every required field there, one missing (or falsy), or a
\* body req.json() rejects
Bodies == {"complete", "missing", "malformed"}

ServerQueries == {"q1", "q2"}

Requests ==
    UNION { [endpoint : {e}, body : Bodies, auth : Auths,
             query : IF e = "seo-generate-query" THEN ServerQueries ELSE {"q1"}]
            : e \in Endpoints }

\* FLOWGLAD_SECRET_KEY and the handler's provider key, set or not
Envs == [flowglad : BOOLEAN, provider : BOOLEAN]

\* a variant that serves an anonymous request as a guest user
GetUserIdOrGuest(auth) == IF auth.sub = <<>> THEN <<"user-1">> ELSE auth.sub

\* getUserIdFromRequest: payload.sub || null of whatever follows Bearer
GetUserIdFromRequest(auth) == IF auth.scheme = "none" THEN <<>> ELSE auth.sub

\* what supabase.auth.getClaims(token) can come to
ClaimsAnswers == {"throw", "error", "claims"}

\* getVerifiedUserId once getClaims has settled
GetVerifiedUserId(auth, c) == IF c = "claims" THEN auth.sub ELSE <<>>

\* the message of the 400 answer
RequiredError(e) ==
    CASE e = "seo-scrape" -> "URL is required"
      [] e = "seo-analyze" -> "Content is required"
      [] e \in {"seo-search", "seo-llm-compare"} -> "Query is required"
      [] OTHER -> "Missing required data"

\* a handler that takes every body that parses
MissingFieldNever(r) == FALSE

\* if (!url), if (!content), if (!query), if (!query || !companyDescription ||
\* !competitorAnalysis): a required field of the body is missing or falsy
MissingField(r) == r.body = "missing"

\* the message of the 500 answer for a missing provider key
NotConfiguredError(e) ==
    CASE e = "seo-scrape" -> "Firecrawl not configured"
      [] e = "seo-search" -> "Search not configured"
      [] OTHER -> "AI not configured"

Failure(error) == [success |-> FALSE, error |-> error]
Success(data) == [success |-> TRUE, data |-> data]

\* a variant that always answers the default message
DeniedMessageDefault(g) == "Rate limit exceeded. Please upgrade your plan."

\* error?.message || the default message
DeniedMessage(g) ==
    IF g.error # <<>> /\ g.error[1].message # ""
    THEN g.error[1].message
    ELSE "Rate limit exceeded. Please upgrade your plan."

\* the body of the 429 answer; seo-scrape adds remaining: 0
DeniedBody(e, g) ==
    IF e = "seo-scrape"
    THEN [success |-> FALSE, error |-> DeniedMessage(g), remaining |-> 0]
    ELSE Failure(DeniedMessage(g))

Fetch(to, what) == [to |-> to, what |-> what]

(***************************************************************************)
(* Model output.  A text is a sequence of tokens: the opening and closing   *)
(* code fences, the line break, prose ("x"), the document type, and JSON   *)
(* literals: "null", "{}" and one object of the shape each prompt asks for.*)
(* "<fence>" stands for the three backticks of a markdown code fence.      *)
(***************************************************************************)
JsonTokens == {"null", "{}", "{guideline}", "{content}", "{analysis}"}
Whitespace == {" ", "\n"}

\* what is left of a labelled fence once its three backticks are removed
Label(tok) == IF tok = "<fence>json" THEN "json" ELSE "html"

RECURSIVE RemoveFence(_, _)
\* every fence of t removed, each with the line break that follows it, if any;
\* the pattern of the bare fence also matches the backticks of a labelled fence
\* and leaves its label
RemoveFence(t, fence) ==
    IF t = <<>> THEN <<>>
    ELSE IF Head(t) = fence
    THEN IF Len(t) > 1 /\ t[2] = "\n"
         THEN RemoveFence(SubSeq(t, 3, Len(t)), fence)
         ELSE RemoveFence(Tail(t), fence)
    ELSE IF fence = "<fence>" /\ Head(t) \in {"<fence>json", "<fence>html"}
    THEN <<Label(Head(t))>> \o RemoveFence(Tail(t), fence)
    ELSE <<Head(t)>> \o RemoveFence(Tail(t), fence)

RECURSIVE TrimWsStart(_)
TrimWsStart(t) ==
    IF t # <<>> /\ Head(t) \in Whitespace THEN TrimWsStart(Tail(t)) ELSE t

RECURSIVE TrimWsEnd(_)
TrimWsEnd(t) ==
    IF t # <<>> /\ t[Len(t)] \in Whitespace
    THEN TrimWsEnd(SubSeq(t, 1, Len(t) - 1))
    ELSE t

\* String.prototype.trim
TrimWs(t) == TrimWsEnd(TrimWsStart(t))

\* a stripping that knows the json fence only
StripJsonFences(t) == TrimWs(RemoveFence(t, "<fence>json"))

\* the json fences removed, then the bare fences, then trim()
StripFences(t) == TrimWs(RemoveFence(RemoveFence(t, "<fence>json"), "<fence>"))

\* the html fences removed, then the bare fences, then trim()
StripHtmlFences(t) == TrimWs(RemoveFence(RemoveFence(t, "<fence>html"), "<fence>"))

JsonNull == [json |-> "null", fields |-> <<>>]
JsonObject(fields) == [json |-> "object", fields |-> fields]

GuidelineFields ==
    {"title", "currentGaps", "competitorStrengths", "recommendedApproach",
     "keyDifferentiators", "targetWordCount", "primaryKeywords",
     "secondaryKeywords"}

\* a guideline as the model writes it when it follows the prompt
ModelGuideline ==
    [title |-> <<"model title">>, currentGaps |-> <<"gap">>,
     competitorStrengths |-> <<"strength">>, recommendedApproach |-> "approach",
     keyDifferentiators |-> <<"angle">>, targetWordCount |-> 1200,
     primaryKeywords |-> <<"keyword">>, secondaryKeywords |-> <<"support">>]

\* content as the model writes it when it follows the prompt; the html may
\* itself be fenced
ModelContent ==
    [html |-> <<"<!DOCTYPE html>", "x">>,
     metaTitle |-> <<"title">>, metaDescription |-> <<"description">>,
     summary |-> <<"summary">>]

\* the analysis as the model writes it when it follows the prompt
ModelAnalysis ==
    [companyDescription |-> "desc", targetAudience |-> "aud",
     queries |-> <<"q1", "q2">>]

\* the value a JSON literal denotes
JsonValue(tok) ==
    CASE tok = "null" -> JsonNull
      [] tok = "{}" -> JsonObject(<<>>)
      [] tok = "{guideline}" -> JsonObject(ModelGuideline)
      [] tok = "{content}" -> JsonObject(ModelContent)
      [] tok = "{analysis}" -> JsonObject(ModelAnalysis)

\* the tokens a JSON string can hold: text and fences, no raw line break
StringTokens == {"x", "json", "html", "<!DOCTYPE html>",
                 "<fence>", "<fence>json", "<fence>html"}

\* JSON.parse: <<value>>, or <<>> where it throws a SyntaxError. A text is
\* JSON when it is one JSON literal, or the object "{html:" string "}" whose
\* string is the tokens in between.
JsonParse(t) ==
    LET u == TrimWs(t) IN
    IF Len(u) = 1 /\ u[1] \in JsonTokens THEN <<JsonValue(u[1])>>
    ELSE IF /\ Len(u) >= 2 /\ u[1] = "{html:" /\ u[Len(u)] = "}"
            /\ \A k \in 2..(Len(u) - 1) : u[k] \in StringTokens
    THEN <<JsonObject([html |-> SubSeq(u, 2, Len(u) - 1)])>>
    ELSE <<>>

\* v.name where v is not null: <<>> is undefined
Field(v, name) == IF name \in DOMAIN v.fields THEN <<v.fields[name]>> ELSE <<>>

\* the chat completions a model call can return in choices[0].message.content
GuidelineTexts ==
    { <<>>, <<"x">>, <<"{guideline}">>, <<"\n", "{guideline}", "\n">>,
      <<"<fence>json", "\n", "{guideline}", "\n", "<fence>">>,
      <<"<fence>", "{guideline}", "<fence>">>, <<"x", "{guideline}">>,
      <<"null">>, <<"<fence>json", "\n", "null", "\n", "<fence>">>, <<"{}">> }

ContentTexts ==
    { <<>>, <<"x">>, <<"{content}">>, <<"<fence>json", "\n", "{content}", "\n", "<fence>">>,
      <<"x", "<!DOCTYPE html>", "x">>, <<"null">>, <<"{}">>,
      <<"{html:", "<fence>html", "<!DOCTYPE html>", "<fence>", "}">> }

AnalysisTexts ==
    { <<>>, <<"x">>, <<"{analysis}">>, <<"<fence>json", "\n", "{analysis}", "\n", "<fence>">>,
      <<" ", "<fence>", "{analysis}", "<fence>">>, <<"null">>, <<"{}">> }

HtmlTexts == { <<>>, <<"<!DOCTYPE html>", "x">>,
               <<"<fence>html", "\n", "<!DOCTYPE html>", "x", "\n", "<fence>">> }

\* a text is falsy when it is the empty string
TruthyTokens(o) == o # <<>> /\ o[1] # <<>>

\* what a chat completions fetch can come to: a thrown exception (of fetch or
\* of response.json()), a non-2xx status, or a 2xx body whose content is a
\* text or is missing
ChatAnswers(texts) ==
    {[kind |-> "throw"]}
        \cup {[kind |-> "http", status |-> st] : st \in {429, 500}}
        \cup {[kind |-> "ok", content |-> c] : c \in Opt(texts)}

\* content || the empty string
ContentOf(a) == IF TruthyTokens(a.content) THEN a.content[1] ELSE <<>>

(***************************************************************************)
(* Providers.                                                              *)
(***************************************************************************)
MaxLinks == 11
MaxCitations == 6
MaxDemoCalls == 4

LinkCap == 10
PageCap == 5
CompetitorCap == 5
Placeholders == 3
DefaultWordCount == 1500
MapLimit == 20

\* the formatted url of the request; the links the map call discovers are
\* 1, 2, ...
FormattedUrl == 0

LinkLists == { [k \in 1..n |-> k] : n \in 0..MaxLinks }

\* what the map fetch can come to (a body that is not JSON makes
\* mapResponse.json() throw); mapData.error and mapData.links may be missing
MapAnswers ==
    {[kind |-> "throw"]}
        \cup {[kind |-> "http", status |-> st, error |-> er] :
                 st \in {402, 500}, er \in Opt({"Payment required"})}
        \cup {[kind |-> "ok", links |-> l] : l \in Opt(LinkLists)}

Markdowns == {"", "md"}
\* scrapeData.data?.markdown and scrapeData.markdown
PageBodies == [dataMarkdown : Opt(Markdowns), markdown : Opt(Markdowns)]

\* what a page fetch can come to
PageAnswers ==
    {[kind |-> "throw"], [kind |-> "http"]}
        \cup {[kind |-> "ok", body |-> b] : b \in PageBodies}

\* scrapeData.data?.markdown || scrapeData.markdown
Markdown(b) == IF TruthyText(b.dataMarkdown) THEN b.dataMarkdown ELSE b.markdown

\* the text pushed for a page
PageBlock(pageUrl, markdown) == [page |-> pageUrl, markdown |-> markdown]

\* a variant that pushes a block for every page fetched
PushPageAlways(sc, pageUrl, a) == Append(sc, PageBlock(pageUrl, ""))

\* scrapedContent after the body of the loop for pageUrl
PushPage(sc, pageUrl, a) ==
    IF a.kind = "ok" /\ TruthyText(Markdown(a.body))
    THEN Append(sc, PageBlock(pageUrl, Markdown(a.body)[1]))
    ELSE sc

\* a variant without the try block around the page fetch
PageCaughtNever(a) == a.kind # "throw"

\* whether the loop goes on after the page fetch: the try block around it
\* catches whatever it throws
PageCaught(a) == TRUE

\* whether a page fetch came back 2xx with a non-empty text
Fetched(a) ==
    a.kind = "ok" /\ (TruthyText(a.body.dataMarkdown) \/ TruthyText(a.body.markdown))

\* the locals of a handler before it has assigned them; billing and map are
\* what the billing fetch and the map fetch came to, fetched tells for each
\* page fetch so far whether it came back 2xx with a non-empty text
NoLocals ==
    [billing |-> <<>>, map |-> <<>>, urls |-> <<>>, n |-> 0, fetched |-> <<>>,
     scrapedContent |-> <<>>, messageContent |-> <<>>, citations |-> <<>>,
     guidelineText |-> <<>>, guideline |-> <<>>,
     data |-> <<>>]

\* the data of the scrape answer
ScrapeData(loc) ==
    [url |-> FormattedUrl, pages |-> loc.urls, content |-> loc.scrapedContent,
     pageCount |-> Len(loc.scrapedContent)]

CitationLists == { [k \in 1..n |-> <<"cite", k>>] : n \in 0..MaxCitations }

\* what the search fetch can come to
PerplexityAnswers ==
    {[kind |-> "throw"], [kind |-> "http"]}
        \cup {[kind |-> "ok", content |-> c, citations |-> ci] :
                 c \in Opt({<<>>, <<"x">>}), ci \in Opt(CitationLists)}

\* competitors of every citation, however many
CompetitorsUncapped(citations) ==
    [k \in 1..Len(citations) |->
        [url |-> citations[k], title |-> <<"Result", k>>, position |-> k]]

\* the competitors of the search answer (insights left out)
Competitors(citations) ==
    LET c == Slice(citations, 0, CompetitorCap) IN
    IF Len(c) = 0
    THEN [k \in 1..Placeholders |->
            [url |-> <<"https://competitor", k, ".com">>,
             title |-> <<"Competitor", k>>, position |-> k]]
    ELSE [k \in 1..Len(c) |->
            [url |-> c[k], title |-> <<"Result", k>>, position |-> k]]

\* the guideline used when the model's text does not parse
DefaultGuideline(query) ==
    [title |-> <<"Content Strategy for", query>>,
     currentGaps |-> <<"Content depth needs improvement",
                       "Missing key topics covered by competitors">>,
     competitorStrengths |-> <<"Comprehensive coverage",
                               "Strong keyword optimization">>,
     recommendedApproach |->
        "Create authoritative, in-depth content that addresses user intent comprehensively.",
     keyDifferentiators |-> <<"Unique industry expertise",
                              "Practical actionable advice">>,
     targetWordCount |-> DefaultWordCount,
     primaryKeywords |-> <<query>>,
     secondaryKeywords |-> <<>>]

\* try { guideline = JSON.parse(guidelineText) } catch { guideline = {...} }
ParseGuideline(text, query) ==
    LET parsed == JsonParse(text) IN
    IF parsed # <<>> THEN parsed[1] ELSE JsonObject(DefaultGuideline(query))

RECURSIVE HtmlFrom(_)
\* contentText.match(/<!DOCTYPE html>[\s\S]*/i): <<>> is no match
HtmlFrom(t) ==
    IF t = <<>> THEN <<>>
    ELSE IF Head(t) = "<!DOCTYPE html>" THEN t
    ELSE HtmlFrom(Tail(t))

\* the content used when the model's text does not parse
RawContent(text, query) ==
    [html |-> IF HtmlFrom(text) # <<>> THEN HtmlFrom(text) ELSE text,
     metaTitle |-> <<query, " | ", "companyUrl">>,
     metaDescription |-> <<"Expert guide on ", query, " from ", "companyUrl">>,
     summary |->
        <<"Comprehensive content created to fill competitive gaps and provide unique value.">>]

\* try { content = JSON.parse(contentText) } catch { content = {...} }
ParseContent(text, query) ==
    LET parsed == JsonParse(text) IN
    IF parsed # <<>> THEN parsed[1] ELSE JsonObject(RawContent(text, query))

\* if (content.html) content.html = content.html.replace(...)....trim()
CleanHtml(content) ==
    IF Field(content, "html") # <<>> /\ Field(content, "html")[1] # <<>>
    THEN JsonObject([content.fields EXCEPT !.html = StripHtmlFences(@)])
    ELSE content

\* seo-analyze: trim(), the fences stripped, JSON.parse; <<>> where it throws
ParseAnalysis(messageContent) == JsonParse(StripFences(TrimWs(messageContent)))

\* seo-generate-query: the fences stripped, the parse with its fallback and
\* the clean-up of content.html; <<>> where content.html is read of null
ContentFrom(contentText, query) ==
    LET content == ParseContent(StripFences(contentText), query) IN
    IF content.json = "null" THEN <<>> ELSE <<CleanHtml(content)>>

\* the message of the TypeError for a property read of null
NullRead == "Cannot read properties of null"

(***************************************************************************)
(* The tail of a handler from a given point on.  Each of these sets spc,   *)
(* response, local and fetches; loc and f are the values the caller has    *)
(* reached.                                                                *)
(***************************************************************************)
\* return new Response(JSON.stringify(body), { status })
Return(status, body, loc, f) ==
    /\ spc' = "done"
    /\ response' = <<[status |-> status, body |-> body]>>
    /\ local' = loc
    /\ fetches' = f

\* await fetch(...): the handler waits at position at
Await(at, to, loc, f) ==
    /\ spc' = at
    /\ response' = <<>>
    /\ local' = loc
    /\ fetches' = Append(f, Fetch(to, at))

\* the catch block of the handler
CatchAll(message, loc, f) == Return(500, Failure(message), loc, f)

\* the first provider call of a handler
FirstCall(e) ==
    CASE e = "seo-scrape" -> "map"
      [] e = "seo-analyze" -> "analyze"
      [] e = "seo-search" -> "search"
      [] e = "seo-generate" -> "generate"
      [] e = "seo-generate-query" -> "guideline"

\* from the check of the provider key on
CallProvider(e, loc, f) ==
    IF ~env.provider
    THEN Return(500, Failure(NotConfiguredError(e)), loc, f)
    ELSE Await(FirstCall(e), "provider", loc, f)

\* from if (!allowed) on
Gated(e, g, loc, f) ==
    IF ~g.allowed
    THEN Return(429, DeniedBody(e, g), loc, f)
    ELSE CallProvider(e, loc, f)

NoAnswer == [kind |-> "none"]

\* from if (userId) on; sets userId, gate and demoChecks as well
Identified(e, uid, loc, f) ==
    /\ userId' = uid
    /\ IF uid = <<>>
       THEN /\ gate' = <<>>
            /\ UNCHANGED demoChecks
            /\ CallProvider(e, loc, f)
       ELSE /\ demoChecks' = IF IsDemoUser(uid[1]) THEN demoChecks + 1 ELSE demoChecks
            /\ IF AsksBilling(uid[1], env.flowglad)
               THEN /\ gate' = <<>>
                    /\ Await("billing", "billing", loc, f)
               ELSE LET g == CheckApiRateLimit(uid[1], Meter(e), env.flowglad, NoAnswer)
                    IN /\ gate' = <<g>>
                       /\ Gated(e, g, loc, f)

\* a variant that answers without recordUsageEvent
FinishUnrecorded(data, loc, f) ==
    Return(200, Success(data), [loc EXCEPT !.data = <<data>>], f)

\* from if (userId) await recordUsageEvent(userId, meter, 1) on, data being
\* the data of the answer; recordUsageEvent fetches only with the secret key
Finish(data, loc, f) ==
    IF userId # <<>> /\ env.flowglad
    THEN Await("usage", "usage", [loc EXCEPT !.data = <<data>>], f)
    ELSE Return(200, Success(data), [loc EXCEPT !.data = <<data>>], f)

\* for (const pageUrl of urls.slice(0, 5)) from the k-th page on, and what
\* follows the loop
ScrapeLoop(k, loc, f) ==
    IF k <= Len(Slice(loc.urls, 0, PageCap))
    THEN Await("page", "provider", [loc EXCEPT !.n = k], f)
    ELSE Finish(ScrapeData(loc), loc, f)

(***************************************************************************)
(* The handlers.                                                           *)
(***************************************************************************)
ServerInit ==
    /\ Mounted
    /\ page = "Analyzer"
    /\ env \in Envs
    /\ req = <<>>
    /\ spc = "idle"
    /\ userId = <<>>
    /\ gate = <<>>
    /\ local = NoLocals
    /\ fetches = <<>>
    /\ usage = <<>>
    /\ response = <<>>
    /\ demoChecks = 0

\* a request arrives: req.json(), the check of the required fields, and the
\* start of getVerifiedUserId or the whole of getUserIdFromRequest
Receive(r) ==
    /\ spc \in {"idle", "done"}
    /\ r.auth.sub = <<DEMO_USER_ID>> => demoChecks < MaxDemoCalls
    /\ req' = <<r>>
    /\ usage' = <<>>
    /\ IF \/ r.body = "malformed"
          \/ MissingField(r)
          \/ (r.endpoint \in Verifying /\ r.auth.scheme = "bearer")
       THEN /\ userId' = <<>>
            /\ gate' = <<>>
            /\ UNCHANGED demoChecks
            /\ IF r.body = "malformed"
               THEN CatchAll("Unexpected end of JSON input", NoLocals, <<>>)
               ELSE IF MissingField(r)
               THEN Return(400, Failure(RequiredError(r.endpoint)), NoLocals, <<>>)
               ELSE Await("claims", "auth", NoLocals, <<>>)
       ELSE Identified(r.endpoint,
                       IF r.endpoint \in Verifying THEN <<>>
                       ELSE GetUserIdFromRequest(r.auth),
                       NoLocals, <<>>)
    /\ UNCHANGED <<env, pipelineVars>>

\* supabase.auth.getClaims settles
ClaimsSettle(c) ==
    /\ spc = "claims"
    /\ Identified(req[1].endpoint, GetVerifiedUserId(req[1].auth, c), local, fetches)
    /\ UNCHANGED <<env, req, usage, pipelineVars>>

\* the fetch of getFlowgladBilling settles: the rest of checkApiRateLimit
BillingSettles(a) ==
    /\ spc = "billing"
    /\ LET g == CheckApiRateLimit(userId[1], Meter(req[1].endpoint), env.flowglad, a)
       IN /\ gate' = <<g>>
          /\ Gated(req[1].endpoint, g, [local EXCEPT !.billing = <<a>>], fetches)
    /\ UNCHANGED <<env, req, userId, usage, demoChecks, pipelineVars>>

\* seo-scrape: the map fetch settles
MapSettles(a) ==
    /\ spc = "map"
    /\ IF a.kind = "throw"
       THEN CatchAll("fetch failed", [local EXCEPT !.map = <<a.kind>>], fetches)
       ELSE IF a.kind = "http"
       THEN Return(a.status, Failure(OrElse(a.error, "Failed to map website")),
                   [local EXCEPT !.map = <<a.kind>>], fetches)
       ELSE ScrapeLoop(1,
                [local EXCEPT !.map = <<a.kind>>,
                              !.urls = IF a.links # <<>>
                                       THEN Slice(a.links[1], 0, LinkCap)
                                       ELSE <<FormattedUrl>>],
                fetches)
    /\ UNCHANGED <<env, req, userId, gate, usage, demoChecks, pipelineVars>>

\* seo-scrape: the fetch of a page settles
PageSettles(a) ==
    /\ spc = "page"
    /\ IF PageCaught(a)
       THEN ScrapeLoop(local.n + 1,
                [local EXCEPT !.scrapedContent = PushPage(@, local.urls[local.n], a),
                              !.fetched = Append(@, Fetched(a))],
                fetches)
       ELSE CatchAll("fetch failed", [local EXCEPT !.fetched = Append(@, Fetched(a))],
                     fetches)
    /\ UNCHANGED <<env, req, userId, gate, usage, demoChecks, pipelineVars>>

\* seo-analyze: the model call settles
LlamaAnalysisSettles(a) ==
    /\ spc = "analyze"
    /\ IF a.kind = "throw" THEN CatchAll("fetch failed", local, fetches)
       ELSE IF a.kind = "http"
       THEN IF a.status = 429
            THEN Return(429, Failure("AI rate limit exceeded. Please try again later."),
                        local, fetches)
            ELSE Return(500, Failure("AI analysis failed"), local, fetches)
       ELSE IF ~TruthyTokens(a.content)
       THEN Return(500, Failure("Invalid AI response"), local, fetches)
       ELSE LET parsed == ParseAnalysis(a.content[1])
                loc == [local EXCEPT !.messageContent = a.content]
            IN IF parsed = <<>>
               THEN Return(500, Failure("Failed to parse AI response"), loc, fetches)
               ELSE IF parsed[1].json = "null"
               THEN CatchAll(NullRead, loc, fetches)
               ELSE Finish(parsed[1], loc, fetches)
    /\ UNCHANGED <<env, req, userId, gate, usage, demoChecks, pipelineVars>>

\* seo-search: the search call settles
PerplexitySettles(a) ==
    /\ spc = "search"
    /\ IF a.kind = "throw" THEN CatchAll("fetch failed", local, fetches)
       ELSE IF a.kind = "http"
       THEN Return(500, Failure("Search failed"), local, fetches)
       ELSE LET citations == IF a.citations # <<>> THEN a.citations[1] ELSE <<>> IN
            Finish([query |-> req[1].query,
                    analysis |-> ContentOf(a),
                    competitors |-> Competitors(citations)],
                   [local EXCEPT !.citations = <<citations>>], fetches)
    /\ UNCHANGED <<env, req, userId, gate, usage, demoChecks, pipelineVars>>

\* seo-generate: the model call settles
LlamaHtmlSettles(a) ==
    /\ spc = "generate"
    /\ IF a.kind = "throw" THEN CatchAll("fetch failed", local, fetches)
       ELSE IF a.kind = "http"
       THEN IF a.status = 429
            THEN Return(429, Failure("AI rate limit exceeded. Please try again later."),
                        local, fetches)
            ELSE Return(500, Failure("Content generation failed"), local, fetches)
       ELSE Finish([html |-> StripHtmlFences(ContentOf(a))], local, fetches)
    /\ UNCHANGED <<env, req, userId, gate, usage, demoChecks, pipelineVars>>

\* seo-generate-query: the guideline call settles
GuidelineSettles(a) ==
    /\ spc = "guideline"
    /\ IF a.kind = "throw" THEN CatchAll("fetch failed", local, fetches)
       ELSE IF a.kind = "http"
       THEN Return(500, Failure("Guideline generation failed"), local, fetches)
       ELSE LET guidelineText == StripFences(ContentOf(a))
                guideline == ParseGuideline(guidelineText, req[1].query)
                loc == [local EXCEPT !.guidelineText = <<guidelineText>>,
                                     !.guideline = <<guideline>>]
            IN \* guideline.targetWordCount in the content prompt
               IF guideline.json = "null"
               THEN CatchAll(NullRead, loc, fetches)
               ELSE Await("content", "provider", loc, fetches)
    /\ UNCHANGED <<env, req, userId, gate, usage, demoChecks, pipelineVars>>

\* seo-generate-query: the content call settles
ContentSettles(a) ==
    /\ spc = "content"
    /\ IF a.kind = "throw" THEN CatchAll("fetch failed", local, fetches)
       ELSE IF a.kind = "http"
       THEN Return(500, Failure("Content generation failed"), local, fetches)
       ELSE LET content == ContentFrom(ContentOf(a), req[1].query) IN
            \* content.html
            IF content = <<>>
            THEN CatchAll(NullRead, local, fetches)
            ELSE Finish([query |-> req[1].query,
                         guideline |-> local.guideline[1],
                         content |-> content[1]],
                        local, fetches)
    /\ UNCHANGED <<env, req, userId, gate, usage, demoChecks, pipelineVars>>

\* the fetch of recordUsageEvent settles; the handler ignores what
\* recordUsageEvent returns
UsageSettles(a) ==
    /\ spc = "usage"
    /\ usage' = IF a = "ok"
                THEN Append(usage, UsageEvent(userId[1], Meter(req[1].endpoint), 1))
                ELSE usage
    /\ Return(200, Success(local.data[1]), local, fetches)
    /\ UNCHANGED <<env, req, userId, gate, demoChecks, pipelineVars>>

ServerNext ==
    \/ \E r \in Requests : Receive(r)
    \/ \E c \in ClaimsAnswers : ClaimsSettle(c)
    \/ spc = "billing" /\ \E a \in BillingAnswers(Meter(req[1].endpoint)) :
            BillingSettles(a)
    \/ \E a \in MapAnswers : MapSettles(a)
    \/ \E a \in PageAnswers : PageSettles(a)
    \/ \E a \in ChatAnswers(AnalysisTexts) : LlamaAnalysisSettles(a)
    \/ \E a \in PerplexityAnswers : PerplexitySettles(a)
    \/ \E a \in ChatAnswers(HtmlTexts) : LlamaHtmlSettles(a)
    \/ \E a \in ChatAnswers(GuidelineTexts) : GuidelineSettles(a)
    \/ \E a \in ChatAnswers(ContentTexts) : ContentSettles(a)
    \/ \E a \in UsageAnswers : UsageSettles(a)

ServerSpec == ServerInit /\ [][ServerNext]_vars

(***************************************************************************)
(* Observations of a served request.                                       *)
(***************************************************************************)
\* the handler has returned its Response
Answered == spc = "done" /\ response # <<>>
\* success of the answer's body
AnswerOk == response[1].body.success
\* the positions in fetches of the calls to one party
FetchesTo(to) == { k \in 1..Len(fetches) : fetches[k].to = to }
\* the usage event of the request being served
OwnUsageEvent == UsageEvent(userId[1], Meter(req[1].endpoint), 1)

\* C11 (as stated): a request of an identified user that is answered with
\* success false has recorded no usage event, one answered with success true
\* has recorded exactly one, on the meter of its operation.
C11_OneUnitPerSuccess ==
    (Answered /\ userId # <<>>) =>
        IF AnswerOk THEN usage = <<OwnUsageEvent>> ELSE usage = <<>>

C11_Recorded ==
    /\ \A k \in FetchesTo("usage") : k = Len(fetches)
    /\ Len(usage) <= Cardinality(FetchesTo("usage"))
    /\ (Answered /\ userId # <<>>) =>
          IF AnswerOk
          THEN /\ Cardinality(FetchesTo("usage")) = IF env.flowglad THEN 1 ELSE 0
               /\ usage \in {<<>>, <<OwnUsageEvent>>}
          ELSE /\ FetchesTo("usage") = {}
               /\ usage = <<>>

C11_PostThenSuccess ==
    spc = "usage" /\ spc' # "usage" => spc' = "done" /\ response'[1].body.success

\* C11 (amended): the usage event is posted after every provider call of the
\* request, as the handler's last call, and the request is then answered with
\* success true whatever comes of the post; a request answered with success
\* false has posted and recorded none; a request of an identified user
\* answered with success true has posted exactly one event when the billing
\* secret is configured and none when it is not, and has recorded at most that
\* one, on the meter of its operation.
C11_UsageAfterSuccess == []C11_Recorded /\ [][C11_PostThenSuccess]_vars

\* a two-step generate-query request of an identified user has been answered
\* with success true and its unit is recorded
C11_Witness ==
    /\ Answered /\ AnswerOk /\ userId # <<>>
    /\ req[1].endpoint = "seo-generate-query"
    /\ usage = <<OwnUsageEvent>>

\* C12 (as stated): once checkApiRateLimit has been called for the demo
\* identity four times or more, it denies: allowed false and remaining 0,
\* without a call to the billing backend.
C12_DemoFourthDenied ==
    (userId = <<DEMO_USER_ID>> /\ gate # <<>> /\ demoChecks >= MaxDemoCalls) =>
        /\ ~gate[1].allowed
        /\ gate[1].remaining = 0
        /\ FetchesTo("billing") = {}

\* the billing fetch of the request has settled with answer a
BillingCame(a) == local.billing = <<a>>

\* the balance getFlowgladBilling reads for the request's meter from a 2xx
\* payload: <<>> when the payload has no such meter
PayloadBalance ==
    LET um == local.billing[1].data.usageMeters
        m == Meter(req[1].endpoint)
    IN IF m \in DOMAIN um THEN <<OrZero(um[m].availableBalance)>> ELSE <<>>

\* C13: the gate denies exactly when the billing backend answered 2xx with a
\* meter of the operation's class whose availableBalance is not greater than
\* 0; without the secret key, on a network exception, on a non-2xx answer
\* (404 included) and without a meter of the class it allows.
C13_FailsOpen ==
    gate # <<>> =>
        /\ ~gate[1].allowed <=>
              /\ local.billing # <<>>
              /\ local.billing[1].kind = "ok"
              /\ PayloadBalance # <<>>
              /\ ~(PayloadBalance[1] > 0)
        /\ (~env.flowglad \/ userId = <<DEMO_USER_ID>>) => local.billing = <<>>
        /\ (local.billing # <<>> /\ local.billing[1].kind \in {"throw", "http"})
              => gate[1].allowed

\* the billing backend answered 500, the gate let the request through and
\* the operation was carried out
C13_Witness ==
    /\ gate # <<>> /\ gate[1].allowed
    /\ BillingCame([kind |-> "http", status |-> 500])
    /\ Answered /\ AnswerOk

\* C14: a request the gate denies is answered at once with status 429,
\* success false and the message of the gate's error; it has made no call
\* to the provider and has posted and recorded no usage.
C14_DeniedAnswer ==
    (gate # <<>> /\ ~gate[1].allowed) =>
        /\ Answered
        /\ response[1].status = 429
        /\ ~AnswerOk
        /\ gate[1].error # <<>>
        /\ response[1].body.error = gate[1].error[1].message
        /\ FetchesTo("provider") = {}
        /\ FetchesTo("usage") = {}
        /\ usage = <<>>

\* a search request of an identified user was denied on an exhausted meter
C14_Witness ==
    /\ gate # <<>> /\ ~gate[1].allowed
    /\ req[1].endpoint = "seo-search"
    /\ userId = <<"user-1">>
    /\ Answered

\* the request carries no authorization header, or a token without a sub
Anonymous == req[1].auth.scheme = "none" \/ req[1].auth.sub = <<>>

\* C15: a complete request without an authorization header, or with a token
\* that yields no identity, is served without a quota check and without a
\* usage record, and its provider is called whenever the provider's key is
\* configured.
C15_AnonymousBypass ==
    (req # <<>> /\ req[1].body = "complete" /\ Anonymous /\ spc # "claims") =>
        /\ userId = <<>>
        /\ gate = <<>>
        /\ FetchesTo("billing") = {}
        /\ FetchesTo("usage") = {}
        /\ usage = <<>>
        /\ IF env.provider
           THEN FetchesTo("provider") # {}
           ELSE Answered /\ response[1].body = Failure(NotConfiguredError(req[1].endpoint))

\* an analyze request with an undecodable bearer token was answered with
\* success true
C15_Witness ==
    /\ req # <<>> /\ req[1].endpoint = "seo-analyze"
    /\ req[1].auth = [scheme |-> "bearer", sub |-> <<>>]
    /\ Answered /\ AnswerOk
    /\ FetchesTo("provider") # {}

(***************************************************************************)
(* The edge function seo-llm-compare: the provider queries run in          *)
(* parallel and are joined by Promise.all.                                 *)
(***************************************************************************)
\* providerOrder
ProviderOrder == <<"openai", "google", "perplexity", "xai">>
\* the providers the handler can launch a query for, in the order of its code
Launchable == <<"openai", "google", "perplexity">>

ProviderName(p) ==
    CASE p = "openai" -> "ChatGPT"
      [] p = "google" -> "Gemini"
      [] p = "perplexity" -> "Perplexity"
      [] p = "xai" -> "Grok"

\* OPENAI_API_KEY, GOOGLE_API_KEY and PERPLEXITY_API_KEY, set or not
CompareEnvs == [openai : BOOLEAN, google : BOOLEAN, perplexity : BOOLEAN]

CompareRequests == [endpoint : {"seo-llm-compare"}, body : Bodies, query : {"q1"}]

LLMResult(p, available, resp, error) ==
    [provider |-> p, providerName |-> ProviderName(p), available |-> available,
     response |-> resp, error |-> error]

NotConfigured(p) == LLMResult(p, FALSE, <<>>, <<"API key not configured">>)
Disabled == LLMResult("xai", FALSE, <<>>, <<"Currently disabled - API key unavailable">>)

\* what the fetch of a provider query can come to: a thrown exception, a
\* non-2xx status, or a 2xx body whose text is there or missing
LlmAnswers ==
    {[kind |-> "throw"], [kind |-> "http"]}
        \cup {[kind |-> "ok", content |-> c] : c \in Opt({<<>>, <<"x">>})}

Fulfilled(v) == [state |-> "fulfilled", value |-> v]
Rejected(message) == [state |-> "rejected", value |-> message]

\* a variant without the try block of the query functions
QueryProviderUncaught(p, a) ==
    IF a.kind = "throw" THEN Rejected("fetch failed")
    ELSE IF a.kind = "http"
    THEN Fulfilled(LLMResult(p, FALSE, <<>>, <<"API error">>))
    ELSE Fulfilled(LLMResult(p, TRUE, <<ContentOf(a)>>, <<>>))

\* how the promise of queryOpenAI, queryGemini or queryPerplexity settles
\* (keyTopics left out)
QueryProvider(p, a) ==
    IF a.kind = "throw" THEN Fulfilled(LLMResult(p, FALSE, <<>>, <<"fetch failed">>))
    ELSE IF a.kind = "http"
    THEN Fulfilled(LLMResult(p, FALSE, <<>>, <<"API error">>))
    ELSE Fulfilled(LLMResult(p, TRUE, <<ContentOf(a)>>, <<>>))

\* providerOrder.indexOf(p)
IndexOf(p) == CHOOSE k \in 1..Len(ProviderOrder) : ProviderOrder[k] = p

RECURSIVE Insert(_, _)
\* the sorted list rs with x put after the entries that do not come after it
Insert(rs, x) ==
    IF rs = <<>> THEN <<x>>
    ELSE IF IndexOf(x.provider) < IndexOf(Head(rs).provider)
    THEN <<x>> \o rs
    ELSE <<Head(rs)>> \o Insert(Tail(rs), x)

\* a variant that leaves the results as they were pushed
Unsorted(rs) == rs

RECURSIVE SortByProvider(_)
\* results.sort((a, b) => providerOrder.indexOf(a.provider) - ...)
SortByProvider(rs) ==
    IF rs = <<>> THEN <<>>
    ELSE Insert(SortByProvider(SubSeq(rs, 1, Len(rs) - 1)), rs[Len(rs)])

\* the elements of a sequence
Range(s) == { s[k] : k \in 1..Len(s) }

RECURSIVE Keep(_, _)
\* s.filter(x => x \in S)
Keep(s, S) ==
    IF s = <<>> THEN <<>>
    ELSE IF Head(s) \in S THEN <<Head(s)>> \o Keep(Tail(s), S)
    ELSE Keep(Tail(s), S)

\* the locals of the compare handler: the results pushed so far, the
\* providers of the promises, what each fetch came to, and the order in
\* which the promises settled
CompareLocals(results0, promises) ==
    [results |-> results0, promises |-> promises,
     answers |-> [p \in Range(promises) |-> <<>>], settledOrder |-> <<>>]

CompareInit ==
    /\ Mounted
    /\ page = "Analyzer"
    /\ env \in CompareEnvs
    /\ req = <<>>
    /\ spc = "idle"
    /\ userId = <<>>
    /\ gate = <<>>
    /\ local = CompareLocals(<<>>, <<>>)
    /\ fetches = <<>>
    /\ usage = <<>>
    /\ response = <<>>
    /\ demoChecks = 0

\* a request arrives: everything up to await Promise.all(promises)
CompareReceive(r) ==
    /\ spc \in {"idle", "done"}
    /\ req' = <<r>>
    /\ IF r.body = "malformed"
       THEN CatchAll("Unexpected end of JSON input", CompareLocals(<<>>, <<>>), <<>>)
       ELSE IF r.body = "missing"
       THEN Return(400, Failure(RequiredError(r.endpoint)), CompareLocals(<<>>, <<>>), <<>>)
       ELSE LET configured == { p \in Range(Launchable) : env[p] }
                promises == Keep(Launchable, configured)
                missing == Keep(Launchable, Range(Launchable) \ configured)
            IN /\ spc' = "all"
               /\ response' = <<>>
               /\ local' = CompareLocals(
                     [k \in 1..Len(missing) |-> NotConfigured(missing[k])]
                         \o <<Disabled>>,
                     promises)
               /\ fetches' = [k \in 1..Len(promises) |-> Fetch("provider", promises[k])]
    /\ UNCHANGED <<env, userId, gate, usage, demoChecks, pipelineVars>>

\* the fetch of one provider query settles, and with it the query's promise;
\* Promise.all rejects as soon as one of its promises rejects
ProviderSettles(p, a) ==
    /\ spc = "all"
    /\ p \in DOMAIN local.answers
    /\ local.answers[p] = <<>>
    /\ LET loc == [local EXCEPT !.answers[p] = <<a>>,
                                !.settledOrder = Append(@, p)]
       IN IF QueryProvider(p, a).state = "rejected"
          THEN CatchAll(QueryProvider(p, a).value, loc, fetches)
          ELSE /\ local' = loc
               /\ UNCHANGED <<spc, response, fetches>>
    /\ UNCHANGED <<env, req, userId, gate, usage, demoChecks, pipelineVars>>

\* Promise.all resolves with the values in the order of the promises: the
\* push of the parallel results, the sort and the answer
AllSettled ==
    /\ spc = "all"
    /\ \A p \in DOMAIN local.answers : local.answers[p] # <<>>
    /\ LET parallelResults ==
               [k \in 1..Len(local.promises) |->
                   QueryProvider(local.promises[k],
                                 local.answers[local.promises[k]][1]).value]
           results1 == SortByProvider(local.results \o parallelResults)
       IN Return(200, Success([query |-> req[1].query, results |-> results1]),
                 [local EXCEPT !.results = results1], fetches)
    /\ UNCHANGED <<env, req, userId, gate, usage, demoChecks, pipelineVars>>

CompareNext ==
    \/ \E r \in CompareRequests : CompareReceive(r)
    \/ \E p \in Range(Launchable) : \E a \in LlmAnswers : ProviderSettles(p, a)
    \/ AllSettled

CompareSpec == CompareInit /\ [][CompareNext]_vars

\* the answer to a complete request
CompareAnswered == Answered /\ req[1].body = "complete"
\* the providers of the answer's results, in order
ResultProviders ==
    [k \in 1..Len(response[1].body.data.results) |->
        response[1].body.data.results[k].provider]
\* the entry of provider p in the answer
ResultOf(p) ==
    CHOOSE x \in Range(response[1].body.data.results) : x.provider = p

\* C16: whatever keys are configured and in whatever order the queries
\* settle, the answer lists each known provider once, in the order openai,
\* google, perplexity, xai; the providers without a key and xai are there
\* with available false.
C16_FixedOrder ==
    CompareAnswered =>
        /\ AnswerOk
        /\ ResultProviders = ProviderOrder
        /\ ~ResultOf("xai").available
        /\ \A p \in Range(Launchable) : ~env[p] => ResultOf(p) = NotConfigured(p)

\* perplexity settled before openai, google has no key
C16_Witness ==
    /\ CompareAnswered
    /\ env = [openai |-> TRUE, google |-> FALSE, perplexity |-> TRUE]
    /\ local.settledOrder = <<"perplexity", "openai">>

\* C17: a complete request is answered only when every launched query has
\* settled, and then with success true; a query whose fetch threw or came
\* back non-2xx is listed with available false and an error, a query that
\* came back 2xx with available true and its text.
C17_FailuresIsolated ==
    /\ (req # <<>> /\ req[1].body = "complete" /\ spc = "done") =>
          /\ AnswerOk
          /\ \A p \in DOMAIN local.answers : local.answers[p] # <<>>
          /\ \A p \in DOMAIN local.answers :
                LET a == local.answers[p][1]
                    x == ResultOf(p)
                IN IF a.kind = "ok"
                   THEN x.available /\ x.response = <<ContentOf(a)>>
                   ELSE ~x.available /\ x.error # <<>> /\ x.response = <<>>
    /\ (spc = "all" /\ \E p \in DOMAIN local.answers : local.answers[p] = <<>>)
          => response = <<>>

\* openai threw first, google answered afterwards, and both are in the answer
C17_Witness ==
    /\ CompareAnswered
    /\ local.settledOrder = <<"openai", "google">>
    /\ local.answers["openai"] = <<[kind |-> "throw"]>>
    /\ local.answers["google"][1].kind = "ok"
    /\ ResultOf("google").available

\* a scrape request has been answered with success true
ScrapeAnswered == Answered /\ req[1].endpoint = "seo-scrape" /\ AnswerOk

\* the urls of the loop whose fetch came back 2xx with a non-empty text
FetchedPages ==
    Keep(SubSeq(local.urls, 1, Len(local.fetched)),
         { local.urls[j] : j \in { k \in 1..Len(local.fetched) : local.fetched[k] } })

\* C18: in a successful scrape answer pageCount is the number of pages whose
\* fetch came back 2xx with a non-empty text, these pages and no others are
\* in content, pageCount is at most 5 and pages has at most 20 entries.
C18_PageCount ==
    ScrapeAnswered =>
        LET d == response[1].body.data IN
        /\ d.pageCount = Cardinality({ k \in 1..Len(local.fetched) : local.fetched[k] })
        /\ d.pageCount = Len(d.content)
        /\ [k \in 1..Len(d.content) |-> d.content[k].page] = FetchedPages
        /\ d.pageCount <= PageCap
        /\ Len(d.pages) <= MapLimit

\* the map call found more links than are kept, five pages were fetched and
\* two of the fetches brought nothing
C18_Witness ==
    /\ ScrapeAnswered
    /\ Len(response[1].body.data.pages) = LinkCap
    /\ local.fetched = <<TRUE, FALSE, TRUE, FALSE, TRUE>>
    /\ response[1].body.data.pageCount = 3

\* C19: once the map call has come back 2xx the request is never answered
\* with a failure, whichever page fetches fail; the answer then holds the
\* pages that were fetched and only those; a request whose provider was
\* called is answered with a failure only when the map call failed, before
\* any page fetch.
C19_PartialSuccess ==
    (req # <<>> /\ req[1].endpoint = "seo-scrape") =>
        /\ (local.map = <<"ok">> /\ Answered) =>
              /\ AnswerOk
              /\ Len(local.fetched) = Min(Len(local.urls), PageCap)
              /\ Len(response[1].body.data.content)
                    = Cardinality({ k \in 1..Len(local.fetched) : local.fetched[k] })
        /\ (Answered /\ ~AnswerOk /\ FetchesTo("provider") # {}) =>
              /\ local.map \in {<<"throw">>, <<"http">>}
              /\ local.fetched = <<>>
              /\ Cardinality(FetchesTo("provider")) = 1

\* five pages were tried, every fetch failed, and the answer is a success
\* with no page
C19_Witness ==
    /\ ScrapeAnswered
    /\ local.fetched = <<FALSE, FALSE, FALSE, FALSE, FALSE>>
    /\ response[1].body.data.pageCount = 0
    /\ response[1].body.data.content = <<>>

\* a guideline with every field of the result type
WellTypedGuideline(g) == g.json = "object" /\ GuidelineFields \subseteq DOMAIN g.fields

\* C20 (as stated): whatever text a 2xx guideline call returned, the handler
\* has gone on to the content call with a well-typed guideline, which is the
\* guideline of a successful answer; when the text does not parse, that
\* guideline is the default for the query: its title names the query, its
\* primaryKeywords are [query] and its targetWordCount is 1500.
C20_GuidelineNeverRaises ==
    (req # <<>> /\ req[1].endpoint = "seo-generate-query" /\ local.guidelineText # <<>>) =>
        /\ \E k \in FetchesTo("provider") : fetches[k].what = "content"
        /\ WellTypedGuideline(local.guideline[1])
        /\ JsonParse(local.guidelineText[1]) = <<>> =>
              /\ local.guideline[1] = JsonObject(DefaultGuideline(req[1].query))
              /\ local.guideline[1].fields.title = <<"Content Strategy for", req[1].query>>
              /\ local.guideline[1].fields.primaryKeywords = <<req[1].query>>
              /\ local.guideline[1].fields.targetWordCount = DefaultWordCount
        /\ (Answered /\ AnswerOk) => response[1].body.data.guideline = local.guideline[1]


\* the model output of seo-analyze matches the expected schema: it parses to
\* an object with a queries array
MatchesSchema(text) ==
    LET parsed == ParseAnalysis(text) IN
    /\ parsed # <<>>
    /\ parsed[1].json = "object"
    /\ "queries" \in DOMAIN parsed[1].fields

\* C21 (as stated): when the model call of seo-analyze answered with a text that
\* does not match the schema, the request is answered with success and a
\* non-empty queries array.
C21_SchemaFallback ==
    (/\ Answered
     /\ req[1].endpoint = "seo-analyze"
     /\ local.messageContent # <<>>
     /\ ~MatchesSchema(local.messageContent[1])) =>
        /\ AnswerOk
        /\ response[1].body.data.json = "object"
        /\ "queries" \in DOMAIN response[1].body.data.fields
        /\ response[1].body.data.fields.queries # <<>>


(***************************************************************************)
(* The normalisation of a model's text, on its own: a well-formed JSON     *)
(* payload is wrapped in a code fence, and the wrapped text and the        *)
(* payload are taken through the fence stripping and the parse of          *)
(* seo-analyze or of the content step of seo-generate-query.               *)
(***************************************************************************)
\* well-formed JSON payloads; a string of a payload may hold fences
JsonBodies ==
    { <<"null">>, <<"{}">>, <<"{analysis}">>, <<"{content}">>,
      <<"{html:", "x", "}">>,
      <<"{html:", "<fence>html", "<!DOCTYPE html>", "<fence>", "}">>,
      <<"{html:", "<fence>json", "x", "}">>,
      <<"{html:", "x", "<fence>", "}">> }
Pads == { <<>>, <<"\n">>, <<" ">> }
Payloads == { a \o b \o c : a \in Pads, b \in JsonBodies, c \in Pads }
OpeningFences == {"<fence>json", "<fence>"}
Normalizers == {"seo-analyze", "seo-generate-query"}

\* the payload between an opening and a closing fence
Wrap(payload, opening, before, after) ==
    <<opening>> \o before \o payload \o after \o <<"<fence>">>

\* the stripping of one handler
Strip(h, text) ==
    IF h = "seo-analyze" THEN StripFences(TrimWs(text)) ELSE StripFences(text)

\* the stripping and the parse of one handler
Normalize(h, text) ==
    IF h = "seo-analyze" THEN ParseAnalysis(text) ELSE ContentFrom(text, "q1")

NormalizeLocals(h, payload, text) ==
    [handler |-> h, payload |-> payload, text |-> text, stripped |-> <<>>,
     again |-> <<>>, fenced |-> <<>>, unfenced |-> <<>>]

NormalizeInit ==
    /\ Mounted
    /\ env = <<>>
    /\ req = <<>>
    /\ spc = "text"
    /\ userId = <<>>
    /\ gate = <<>>
    /\ \E h \in Normalizers : \E payload \in Payloads : \E opening \in OpeningFences :
       \E before \in Pads : \E after \in Pads :
          local = NormalizeLocals(h, payload, Wrap(payload, opening, before, after))
    /\ fetches = <<>>
    /\ usage = <<>>
    /\ response = <<>>
    /\ demoChecks = 0

\* the fences are stripped from the wrapped text
StripText ==
    /\ spc = "text"
    /\ spc' = "stripped"
    /\ local' = [local EXCEPT !.stripped = <<Strip(local.handler, local.text)>>]
    /\ UNCHANGED <<env, req, userId, gate, fetches, usage, response, demoChecks, pipelineVars>>

\* the stripped text is stripped once more
StripAgain ==
    /\ spc = "stripped"
    /\ spc' = "again"
    /\ local' = [local EXCEPT !.again = <<Strip(local.handler, local.stripped[1])>>]
    /\ UNCHANGED <<env, req, userId, gate, fetches, usage, response, demoChecks, pipelineVars>>

\* the wrapped text is normalised
NormalizeFenced ==
    /\ spc = "again"
    /\ spc' = "fenced"
    /\ local' = [local EXCEPT !.fenced = <<Normalize(local.handler, local.text)>>]
    /\ UNCHANGED <<env, req, userId, gate, fetches, usage, response, demoChecks, pipelineVars>>

\* the payload is normalised as it is
NormalizeUnfenced ==
    /\ spc = "fenced"
    /\ spc' = "unfenced"
    /\ local' = [local EXCEPT !.unfenced = <<Normalize(local.handler, local.payload)>>]
    /\ UNCHANGED <<env, req, userId, gate, fetches, usage, response, demoChecks, pipelineVars>>

NormalizeNext == StripText \/ StripAgain \/ NormalizeFenced \/ NormalizeUnfenced

NormalizeSpec == NormalizeInit /\ [][NormalizeNext]_vars

\* C22: for every well-formed JSON payload, the wrapped payload normalises to
\* what the payload itself normalises to, and stripping the stripped text
\* once more leaves it as it is.
C22_FenceStripping ==
    /\ (local.again # <<>>) => local.again = local.stripped
    /\ (local.unfenced # <<>>) => local.fenced = local.unfenced

\* a payload whose string holds an html fence, wrapped in a json fence and
\* taken through seo-generate-query: both texts gave the same object, whose
\* html has lost the backticks of the inner fence
C22_Witness ==
    /\ spc = "unfenced"
    /\ local.handler = "seo-generate-query"
    /\ local.payload = <<"{html:", "<fence>html", "<!DOCTYPE html>", "<fence>", "}">>
    /\ local.text[1] = "<fence>json"
    /\ local.again = local.stripped
    /\ local.fenced = local.unfenced
    /\ local.fenced = <<<<JsonObject([html |-> <<"html", "<!DOCTYPE html>">>])>>>>


\* C23: a successful answer of seo-search has between one and five
\* competitors, the k-th with position k; they are the first five citations
\* in order, or, without citations, the three placeholders
\* https://competitorN.com named Competitor N.
C23_Competitors ==
    (Answered /\ req[1].endpoint = "seo-search" /\ AnswerOk) =>
        LET competitors == response[1].body.data.competitors
            citations == local.citations[1]
        IN /\ Len(competitors) \in 1..CompetitorCap
           /\ \A k \in 1..Len(competitors) : competitors[k].position = k
           /\ IF citations = <<>>
              THEN /\ Len(competitors) = Placeholders
                   /\ \A k \in 1..Placeholders :
                        /\ competitors[k].url = <<"https://competitor", k, ".com">>
                        /\ competitors[k].title = <<"Competitor", k>>
              ELSE /\ Len(competitors) = Min(Len(citations), CompetitorCap)
                   /\ \A k \in 1..Len(competitors) : competitors[k].url = citations[k]

\* a search answered with success whose model answer held more citations
\* than are kept
C23_Witness ==
    /\ Answered /\ req[1].endpoint = "seo-search" /\ AnswerOk
    /\ Len(local.citations[1]) = MaxCitations
    /\ Len(response[1].body.data.competitors) = CompetitorCap
    /\ response[1].body.data.competitors[CompetitorCap].url = <<"cite", CompetitorCap>>


\* C24: a request whose body lacks a required field is answered at once with
\* HTTP 400 and {success: false, error}; nothing was fetched for it (no
\* identity, billing or provider call), the gate was not consulted and no
\* usage was recorded.
C24_RejectedBeforeCalls ==
    (req # <<>> /\ req[1].body = "missing") =>
        /\ spc = "done"
        /\ response = <<[status |-> 400, body |-> Failure(RequiredError(req[1].endpoint))]>>
        /\ fetches = <<>>
        /\ gate = <<>>
        /\ usage = <<>>

\* a request without its required field, from an identified caller, with the
\* billing service and the provider configured
C24_Witness ==
    /\ req # <<>> /\ req[1].body = "missing"
    /\ req[1].endpoint = "seo-generate-query"
    /\ req[1].auth.sub = <<"user-1">>
    /\ env.flowglad /\ env.provider
    /\ response # <<>> /\ response[1].status = 400


(***************************************************************************)
(* The seoApi client: each operation is one invokeFunction, which is one   *)
(* supabase.functions.invoke. invoke does not reject: it resolves to       *)
(* {data, error}, with an error for a transport failure, a relay failure,  *)
(* a non-2xx answer and a body that cannot be read as its content type     *)
(* says, and otherwise with the body as data, whatever it is. JavaScript   *)
(* values are records tagged by js.                                        *)
(***************************************************************************)
SeoApi ==
    [scrapeWebsite |-> "seo-scrape", analyzeContent |-> "seo-analyze",
     searchQuery |-> "seo-search", generateContent |-> "seo-generate",
     generateQueryContent |-> "seo-generate-query", compareLLMs |-> "seo-llm-compare"]

JsNull == [js |-> "null"]
JsString(s) == [js |-> "string", value |-> s]
JsObject(fields) == [js |-> "object", fields |-> fields]

\* the bodies an answer can carry: none, the JSON null, an object without
\* success, and the result objects of the functions
AnswerBodies == {"", "null", "{}", "{success:true,data}", "{success:false,error}"}
ContentTypes == {"application/json", "text/plain"}

InvokeOutcomes ==
    {[kind |-> "fetch"], [kind |-> "relay"]}
        \cup [kind : {"http"}, status : {400, 429, 500}, body : AnswerBodies]
        \cup [kind : {"ok"}, contentType : ContentTypes, body : AnswerBodies]

\* response.json() of a body that is JSON
JsonBody(body) ==
    CASE body = "null" -> JsNull
      [] body = "{}" -> JsObject(<<>>)
      [] body = "{success:true,data}" -> JsObject([success |-> TRUE, data |-> "data"])
      [] body = "{success:false,error}" -> JsObject([success |-> FALSE, error |-> "error"])

InvokeAnswer(data, error) == [data |-> data, error |-> error]

\* supabase.functions.invoke
Invoke(o) ==
    CASE o.kind = "fetch" ->
            InvokeAnswer(JsNull, <<"Failed to send a request to the Edge Function">>)
      [] o.kind = "relay" ->
            InvokeAnswer(JsNull, <<"Relay Error invoking the Edge Function">>)
      [] o.kind = "http" ->
            InvokeAnswer(JsNull, <<"Edge Function returned a non-2xx status code">>)
      [] o.kind = "ok" ->
            IF o.contentType = "application/json"
            THEN IF o.body = ""
                 THEN InvokeAnswer(JsNull, <<"Unexpected end of JSON input">>)
                 ELSE InvokeAnswer(JsonBody(o.body), <<>>)
            ELSE InvokeAnswer(JsString(o.body), <<>>)

\* invokeFunction: a failure object for an error of invoke, else data as it is
InvokeFunction(functionName, o) ==
    LET answer == Invoke(o) IN
    IF answer.error # <<>>
    THEN JsObject([success |-> FALSE, error |-> answer.error[1]])
    ELSE answer.data

\* the operation called, what its invocation came to, and what it resolved to
ClientLocals(op, outcome, result) == [op |-> op, outcome |-> outcome, result |-> result]

ClientInit ==
    /\ Mounted
    /\ env = <<>>
    /\ req = <<>>
    /\ spc = "ready"
    /\ userId = <<>>
    /\ gate = <<>>
    /\ local = ClientLocals(<<>>, <<>>, <<>>)
    /\ fetches = <<>>
    /\ usage = <<>>
    /\ response = <<>>
    /\ demoChecks = 0

\* an operation of seoApi is called: await supabase.functions.invoke
CallOperation(op) ==
    /\ spc \in {"ready", "resolved"}
    /\ spc' = "invoke"
    /\ local' = ClientLocals(<<op>>, <<>>, <<>>)
    /\ fetches' = <<Fetch("functions", SeoApi[op])>>
    /\ UNCHANGED <<env, req, userId, gate, usage, response, demoChecks, pipelineVars>>

\* invoke settles and the operation's promise resolves
InvokeSettles(o) ==
    /\ spc = "invoke"
    /\ spc' = "resolved"
    /\ local' = [local EXCEPT !.outcome = <<o>>,
                              !.result = <<InvokeFunction(SeoApi[local.op[1]], o)>>]
    /\ UNCHANGED <<env, req, userId, gate, fetches, usage, response, demoChecks, pipelineVars>>

ClientNext ==
    \/ \E op \in DOMAIN SeoApi : CallOperation(op)
    \/ \E o \in InvokeOutcomes : InvokeSettles(o)

ClientSpec == ClientInit /\ [][ClientNext]_vars

\* C25 (as stated): whatever the invocation came to, the operation resolves
\* to an object with a boolean success, and with an error text when success
\* is false; never to null, nor to any other value.
C25_TypedResults ==
    (spc = "resolved") =>
        LET result == local.result[1] IN
        /\ result.js = "object"
        /\ "success" \in DOMAIN result.fields
        /\ result.fields.success \in BOOLEAN
        /\ ~result.fields.success => "error" \in DOMAIN result.fields


\* the writes to durable storage made so far in the run
StorageWrites ==
    { k \in 1..Len(calls) :
        calls[k].op \in {"company_profiles.update", "analysis_results.insert"} }

\* C26 (as stated): in a run of the company-profile pipeline that has halted
\* with an error while contentGeneration is not completed, nothing has been
\* written to company_profiles or analysis_results.
C26_PersistOnlyAfterStage5 ==
    (/\ page = "CompanyProfile"
     /\ \E s \in StageNames : pipelineState[s] = "error"
     /\ pipelineState.contentGeneration # "completed") =>
        StorageWrites = {}


\* the per-query calls in flight
PerQueryCalls ==
    { id \in inflight : calls[id].op \in {"searchQuery", "generateQueryContent"} }

\* C27 (as stated): while a searchQuery or generateQueryContent call is in
\* flight, currentQueryIndex is an index of the queries and the query at that
\* index is the query the call is for.
C27_ActiveQuery ==
    \A id \in PerQueryCalls :
        /\ QueriesKnown
        /\ currentQueryIndex \in 0..(Len(Queries) - 1)
        /\ Queries[currentQueryIndex + 1] = calls[id].args[1]


\* a step that enters handleAnalyze with a url: it leaves the handler at the
\* scrape call, coming from elsewhere
C28_Entry == pc' = "scrape" /\ pc # "scrape"

\* the state a run starts from: results null, every stage pending but for
\* scraping, which the entry sets to processing, and the scrape call alone
C28_Fresh ==
    /\ results' = <<>>
    /\ pipelineState' = Set1(AllPending, "scraping", "processing")
    /\ \A s \in StageNames \ {"scraping"} : pipelineState'[s] = "pending"
    /\ Len(calls') = 1 /\ inflight' = {1}
    /\ allSearchResults' = <<>> /\ allQueryContents' = <<>>

\* C28: from the entry of handleAnalyze to the end of its finally block
\* isAnalyzing is true, and handleAnalyze is entered only when no run
\* is in progress (nothing in flight, the handler at rest); each run starts
\* from results null and the stages reset.
C28_OneRunAtATime ==
    /\ [](pc # "idle" => isAnalyzing)
    /\ [][C28_Entry => (pc = "idle" /\ ~isAnalyzing /\ inflight = {} /\ C28_Fresh)]_vars

\* a run in progress in the content loop, its results published, a call in
\* flight and the submit control disabled
C28_Witness ==
    /\ page = "Analyzer"
    /\ pc = "generate"
    /\ inflight # {}
    /\ results # <<>>
    /\ isAnalyzing /\ SubmitDisabled


\* the stages with status error
InError == { s \in StageNames : pipelineState[s] = "error" }

\* a run of Analyzer or Index is over: the handler at rest, isAnalyzing false,
\* currentQueryIndex -1, no stage processing, and either all five stages
\* completed or exactly one in error
Terminated ==
    /\ pc = "idle"
    /\ ~isAnalyzing
    /\ currentQueryIndex = -1
    /\ Processing = {}
    /\ AllCompleted \/ Cardinality(InError) = 1

\* C29: when every call settles, a started run of Analyzer or Index comes to
\* its end: isAnalyzing false again, currentQueryIndex -1 again, no stage
\* processing, all five completed or exactly one in error.
C29_Terminates == (LoopPage /\ isAnalyzing) ~> Terminated

\* a run that failed in the query generation stage, after its end
C29_Witness ==
    /\ LoopPage
    /\ Terminated
    /\ Len(calls) = 2
    /\ pipelineState.queryGeneration = "error"
    /\ toast # <<>> /\ toast[1].title = "Analysis Failed"


(***************************************************************************)
(* Several seo-search requests of one identified customer served at the    *)
(* same time, each by its own run of the handler, against one meter of the *)
(* billing service. The meter starts at env.balance and goes down by the   *)
(* amount of every usage event the service takes. A handler yields at     *)
(* every await: at the billing fetch and again at response.json() of its   *)
(* answer, whose payload holds the balance of the moment the fetch         *)
(* settled; at the provider fetch and at response.json() of its answer;    *)
(* at the fetch of recordUsageEvent. To leave the interleaving alone at    *)
(* fault, the billing service answers every check, the provider answers    *)
(* every call and every usage event is taken.                              *)
(***************************************************************************)
MaxHandlers == 3
MaxBalance == 2

Handlers == 1..MaxHandlers
Customer == "user-1"

\* the meter's available balance after the usage events in us
Available(balance, us) == IF Len(us) >= balance THEN 0 ELSE balance - Len(us)

\* the billing payload that shows a balance on the meter
BillingPayload(m, balance) ==
    [kind |-> "ok", data |-> [usageMeters |-> [x \in {m} |-> [availableBalance |-> <<balance>>]]]]

\* where a handler is, the billing payload it was sent, and its gate result
HandlerLocals(at, payload, g) == [at |-> at, payload |-> payload, gate |-> g]

ConcurrentInit ==
    /\ Mounted
    /\ env \in [flowglad : {TRUE}, provider : {TRUE}, balance : 0..MaxBalance]
    /\ req = <<>>
    /\ spc = "serving"
    /\ userId = <<Customer>>
    /\ gate = <<>>
    /\ local = [h \in Handlers |-> HandlerLocals("idle", <<>>, <<>>)]
    /\ fetches = <<>>
    /\ usage = <<>>
    /\ response = <<>>
    /\ demoChecks = 0

\* a request arrives at a handler: up to the fetch of getFlowgladBilling
Arrives(h) ==
    /\ local[h].at = "idle"
    /\ local' = [local EXCEPT ![h] = HandlerLocals("billing", <<>>, <<>>)]
    /\ UNCHANGED <<env, req, spc, userId, gate, fetches, usage, response, demoChecks,
                   pipelineVars>>

\* the billing fetch of a handler settles: the answer holds the balance of
\* the moment, and the handler goes on to await response.json()
BillingArrives(h) ==
    /\ local[h].at = "billing"
    /\ local' = [local EXCEPT ![h] =
            HandlerLocals("billingjson",
                          <<BillingPayload(Meter("seo-search"),
                                           Available(env.balance, usage))>>,
                          <<>>)]
    /\ UNCHANGED <<env, req, spc, userId, gate, fetches, usage, response, demoChecks,
                   pipelineVars>>

\* response.json() of the billing answer settles: the rest of
\* checkApiRateLimit on the payload received, the 429 answer or the provider
\* call
GateSettles(h) ==
    /\ local[h].at = "billingjson"
    /\ LET g == CheckApiRateLimit(Customer, Meter("seo-search"), env.flowglad,
                                  local[h].payload[1])
       IN IF g.allowed
          THEN /\ local' = [local EXCEPT ![h].at = "search", ![h].gate = <<g>>]
               /\ fetches' = Append(fetches, Fetch("provider", h))
          ELSE /\ local' = [local EXCEPT ![h].at = "denied", ![h].gate = <<g>>]
               /\ UNCHANGED fetches
    /\ UNCHANGED <<env, req, spc, userId, gate, usage, response, demoChecks, pipelineVars>>

\* the provider fetch of a handler settles: on to await response.json()
SearchArrives(h) ==
    /\ local[h].at = "search"
    /\ local' = [local EXCEPT ![h].at = "searchjson"]
    /\ UNCHANGED <<env, req, spc, userId, gate, fetches, usage, response, demoChecks,
                   pipelineVars>>

\* response.json() of the provider answer settles: up to the fetch of
\* recordUsageEvent
SearchAnswers(h) ==
    /\ local[h].at = "searchjson"
    /\ local' = [local EXCEPT ![h].at = "usage"]
    /\ UNCHANGED <<env, req, spc, userId, gate, fetches, usage, response, demoChecks,
                   pipelineVars>>

\* the billing service takes the usage event of a handler, which answers
UsageTaken(h) ==
    /\ local[h].at = "usage"
    /\ usage' = Append(usage, UsageEvent(Customer, Meter("seo-search"), 1))
    /\ local' = [local EXCEPT ![h].at = "served"]
    /\ UNCHANGED <<env, req, spc, userId, gate, fetches, response, demoChecks, pipelineVars>>

ConcurrentNext ==
    \E h \in Handlers :
        \/ Arrives(h)
        \/ BillingArrives(h)
        \/ GateSettles(h)
        \/ SearchArrives(h)
        \/ SearchAnswers(h)
        \/ UsageTaken(h)

ConcurrentSpec == ConcurrentInit /\ [][ConcurrentNext]_vars

\* C30 (as stated): of the requests of a customer whose meter showed a
\* balance of k, at most k reach the provider.
C30_AtMostBalance == Cardinality(FetchesTo("provider")) <= env.balance

====
